---- MODULE Spec2Model ----
(***************************************************************************)
(* Model of the orchestration core of mobile-use:                          *)
(*   - ExecutorToolNode (agents/executor/tool_node.py): the tool dispatch  *)
(*     engine, sequential with abort-on-failure and parallel without;      *)
(*   - with_fallback and invoke_llm_with_timeout_message (services/llm.py):*)
(*     the resilient invocation wrapper and its waiting notice;            *)
(*   - State (graph/state.py): the merge of partial updates by reducers;   *)
(*   - the routing functions and the two graphs of graph/graph.py;         *)
(*   - the monolithic nodes (agents/monolithic/monolithic.py);             *)
(*   - focus_element_if_needed (tools/utils.py), the tap tool              *)
(*     (tools/mobile/tap.py), _handle_initial_app_launch                   *)
(*     (utils/app_lock_utils.py) and WandbBaseManager._safe_log            *)
(*     (observability/base.py).                                            *)
(* Each component has its own specification over its own variables; the    *)
(* variables of the other components are left unchanged by its actions.    *)
(***************************************************************************)
EXTENDS Integers, Sequences, FiniteSets, TLC

\* ------------------------------------------------------------------ bounds
\* Largest batch of tool calls handed to one dispatch.
MaxCalls == 3
\* Number of with_fallback invocations made one after the other by a node.
MaxInvocations == 2
\* Number of invoke_llm_with_timeout_message invocations made one after the other.
MaxLlmCalls == 3
\* Largest number of partial updates merged into the State in one step.
MaxStepUpdates == 2
\* Largest number of subgoals in a plan.
MaxSubgoals == 2
\* Routing evaluations made on one State.
MaxEvals == 2
\* Steps a graph run may take before it is stopped as failed.
RecursionLimit == 10

\* ------------------------------------------------------------ tool dispatch
VARIABLES
    sequential_execution, \* ExecutorToolNode._sequential_execution
    is_async,             \* __func(is_async=...): _afunc passes True, _func False
    trace_id,             \* ExecutorToolNode._trace_id (None or a task id)
    telemetry_up,         \* whether the telemetry service delivers what it captures
    tool_calls,           \* the batch, as parsed by _parse_input
    dpc,                  \* position of the dispatch coroutine
    idx,                  \* position of the `for call in tool_calls` loop (1-based)
    failed,               \* local `failed`
    outputs,              \* local `outputs`
    results,              \* what _arun_one/_run_one gave for each call (NoResult: nothing yet)
    started,              \* indices of the calls whose tool was started, in start order
    log,                  \* one entry per _log_tool_result call
    captured,             \* events delivered by telemetry.capture_executor_action
    raised_exc            \* the exception raised out of the dispatch (NoExc: none)

\* ------------------------------------------------------------ with_fallback
VARIABLES
    none_should_fallback, \* with_fallback's third parameter
    wpc,                  \* position inside with_fallback
    main_result,          \* what main_call did in this invocation
    fallback_result,      \* what the last fallback_call of this invocation did
    main_calls,           \* times main_call was invoked in this invocation
    fallback_calls,       \* times fallback_call was invoked in this invocation
    w_return,             \* what with_fallback returned / raised
    invocations,          \* with_fallback invocations completed so far
    call_log              \* the callables awaited so far, over all invocations

dvars == <<sequential_execution, is_async, trace_id, telemetry_up, tool_calls, dpc,
           idx, failed, outputs, results, started, log, captured, raised_exc>>
wvars == <<none_should_fallback, wpc, main_result, fallback_result, main_calls,
           fallback_calls, w_return, invocations, call_log>>

\* ------------------------------------------ invoke_llm_with_timeout_message
VARIABLES
    tpc,                  \* position inside invoke_llm_with_timeout_message
    llm_task,             \* the task wrapping llm_call: its state and outcome
    waiter_task,          \* the task wrapping asyncio.sleep(timeout_seconds)
    done,                 \* first element of what asyncio.wait returned
    llm_creations,        \* times llm_call was scheduled as a task in this invocation
    notices,              \* "Waiting for LLM call response..." lines of this invocation
    t_return,             \* what the wrapper returned / raised
    t_invocations,        \* wrapper invocations completed so far
    user_messages         \* everything written to user_messages_logger so far

tvars == <<tpc, llm_task, waiter_task, done, llm_creations, notices, t_return,
           t_invocations, user_messages>>

\* --------------------------------------------- State: one step's merge
VARIABLES
    m_state,              \* the State before the step
    m_updates,            \* the partial updates returned in the step, in the order applied
    m_i,                  \* the next update to apply (1-based)
    m_merged,             \* the State with the updates applied so far
    m_pc,                 \* "merging", "committed" (the step's State is m_merged) or "failed"
    m_error,              \* the exception that failed the step ("none": none)
    m_reducer_log         \* <<update index, field>> for every reducer run in the step

mvars == <<m_state, m_updates, m_i, m_merged, m_pc, m_error, m_reducer_log>>

\* ------------------------------------------------- routing functions
VARIABLES
    r_mode,               \* which graph was built: "multi" or "mono"
    r_state,              \* the State a routing function is evaluated on
    r_node,               \* the node whose outgoing edges are followed ("none": none yet)
    r_route,              \* what the node's routing function returned (<<>>: plain edge)
    r_next,               \* the nodes scheduled next
    r_evals,              \* routing evaluations made on r_state so far
    r_seen                \* every <<node, result, successors>> evaluated on r_state

rvars == <<r_mode, r_state, r_node, r_route, r_next, r_evals, r_seen>>

\* ------------------------------------------------------------ graph run
VARIABLES
    g_mode,               \* which graph runs: "multi" or "mono"
    g_state,                   \* the State at the start of the current step
    active,               \* the nodes scheduled in the current step
    writes,               \* the update each node of the step returned so far
    waiting,              \* deferred nodes that were triggered and are held back
    supersteps,           \* steps completed so far
    gstatus,              \* "running", "END" or the error that ended the run
    epoch,                \* since the last planner or cortex run: the branches the
                          \* post-cortex routing selected, the nodes scheduled, the
                          \* nodes that ran, and the number of convergence runs; and
                          \* whether the run was ever sent back to the planner from a
                          \* plan without PENDING or RUNNING subgoal
    g_exc,                \* the node that raised and its exception, when one did
    prev_step             \* the nodes that ran in the step before the current one

gvars == <<g_mode, g_state, active, writes, waiting, supersteps, gstatus, epoch,
           g_exc, prev_step>>

\* ------------------------------------------------ focus_element_if_needed
VARIABLES
    f_args,               \* the call's arguments: resource id, coordinates, text
    f_rid,                \* the local text_input_resource_id (the sanity check may drop it)
    f_elt,                \* the device's element with that resource id, as the last read saw it
    f_text_elt,           \* what a search of the hierarchy by text finds
    f_pc,                 \* where the call is
    f_reads,              \* get_rich_hierarchy calls made
    f_taps,               \* the taps made, in order
    f_return,             \* "True" or "False" once returned
    f_exc                 \* the exception the call raised

fvars == <<f_args, f_rid, f_elt, f_text_elt, f_pc, f_reads, f_taps, f_return, f_exc>>

\* ------------------------------------------------------------ tap tool
VARIABLES
    p_target,             \* the Target of the call: coordinates, resource_id, text
    p_outcomes,           \* what the controller does with each locator
    p_pc,                 \* the block of the tool that runs next
    p_output,             \* the local `output`: "None" after a successful tap
    p_attempts,           \* the locators tried, in order
    p_status              \* the status of the ToolMessage returned

pvars == <<p_target, p_outcomes, p_pc, p_output, p_attempts, p_status>>

\* ------------------------------------------------ _handle_initial_app_launch
VARIABLES
    l_locked,             \* locked_app_package
    l_pc,                 \* where the call is
    l_attempt,            \* the loop variable `attempt`
    l_current,            \* current_package
    l_log,                \* every foreground read and launch made, with its outcome
    l_result              \* the status dictionary returned

lvars == <<l_locked, l_pc, l_attempt, l_current, l_log, l_result>>

\* ------------------------------------------------ WandbBaseManager._safe_log
VARIABLES
    b_enabled,            \* self.enabled
    b_run,                \* whether self.run is set
    b_now,                \* time.time()
    b_failed_logs,        \* self._failed_logs: (data, timestamp, step) entries
    b_calls,              \* _safe_log calls made
    b_last                \* the last call: its data and time, how its send ended, the
                          \* re-sends it made in order, and the buffer it found

bvars == <<b_enabled, b_run, b_now, b_failed_logs, b_calls, b_last>>

\* The device helpers and services, one group.
xvars == <<fvars, pvars, lvars, bvars>>

\* What the actions of one component leave unchanged: the other components.
dispatch_rest == <<wvars, tvars, mvars, rvars, gvars, xvars>>
fallback_rest == <<dvars, tvars, mvars, rvars, gvars, xvars>>
timeout_rest == <<dvars, wvars, mvars, rvars, gvars, xvars>>
merge_rest == <<dvars, wvars, tvars, rvars, gvars, xvars>>
routing_rest == <<dvars, wvars, tvars, mvars, gvars, xvars>>
graph_rest == <<dvars, wvars, tvars, mvars, rvars, xvars>>
core_vars == <<dvars, wvars, tvars, mvars, rvars, gvars>>
focus_rest == <<core_vars, pvars, lvars, bvars>>
tap_rest == <<core_vars, fvars, lvars, bvars>>
launch_rest == <<core_vars, fvars, pvars, bvars>>
wandb_rest == <<core_vars, fvars, pvars, lvars>>
vars == <<dvars, wvars, tvars, mvars, rvars, gvars, xvars>>

\* ------------------------------------------------------------ values
\* A string built by an f-string is the sequence of its fragments; "" is <<>>.
Str(s) == <<s>>

\* Messages and tool outputs share one record shape.
\*   type:   "ToolMessage", "AIMessage", "Command", "str" (any other value) or
\*           "Exception" (the call raised)
\*   update: for a Command, what cmd.update holds under messages_key:
\*           "list" (msgs is that list), "message" (msgs[1] is a lone ToolMessage),
\*           "none" (key missing), "other" (some other value), "notdict"
Value(type, update, msgs, name, id, content, status) ==
    [type |-> type, update |-> update, msgs |-> msgs, name |-> name,
     tool_call_id |-> id, content |-> content, status |-> status]

ToolMessage(name, id, content, status) ==
    Value("ToolMessage", "", <<>>, name, id, content, status)

AIMessage == Value("AIMessage", "", <<>>, "", "", <<>>, "")

Command(update, msgs) == Value("Command", update, msgs, "", "", <<>>, "")

OtherValue == Value("str", "", <<>>, "", "", <<>>, "")

RaisedException(text) == Value("Exception", "", <<>>, "", "", text, "")

NoResult == Value("NoResult", "", <<>>, "", "", <<>>, "")

NoExc == <<>>

\* The result of a call that either returns a value or raises.
Return(v) == [raised |-> FALSE, value |-> v, error |-> NoExc]
Raise(text) == [raised |-> TRUE, value |-> NoResult, error |-> text]

\* What an awaited call did: returned a value, returned None, or raised.
OutValue(v) == [kind |-> "value", v |-> v]
OutNone == [kind |-> "none", v |-> "None"]
OutRaise(e) == [kind |-> "raise", v |-> e]
NoCall == [kind |-> "nothing", v |-> ""]

\* ------------------------------------------------------------ the batch
\* Tool names and call ids of the requests, by position in the batch.
ToolNames == <<"tap", "input_text", "tap", "swipe", "launch_app", "back">>
CallIds == <<"call_1", "call_2", "call_3", "call_4", "call_5", "call_6">>

\* A ToolCall as _parse_input hands it over: the injected state is among its args.
ToolCall(i) == [id |-> CallIds[i], name |-> ToolNames[i], args |-> {"agent_thought", "state"}]

Batch(n) == [i \in 1..n |-> ToolCall(i)]

N == Len(tool_calls)

\* What running one tool call (ToolNode._arun_one / _run_one) can give back: a
\* ToolMessage, a Command of any shape, some other value, or an exception.
ToolOutcomes(call) ==
    LET ok  == ToolMessage(call.name, call.id, Str("ok"), "success")
        err == ToolMessage(call.name, call.id, Str("element not found"), "error")
    IN  { ok, err,
          Command("list", <<ok>>), Command("list", <<err>>),
          Command("message", <<err>>),
          Command("list", <<>>), Command("list", <<err, AIMessage>>),
          Command("none", <<>>), Command("other", <<>>), Command("notdict", <<>>),
          OtherValue,
          RaisedException(Str("ConnectionReset")) }

\* ------------------------------------------------------------ helpers of the node
\* _get_tool_message: the tool message a Command carries, or a ValueError.
GetToolMessage(cmd) ==
    IF cmd.update # "notdict"
    THEN IF cmd.update = "list"
         THEN IF Len(cmd.msgs) = 0
              THEN Raise(Str("ValueError: No messages found in command update"))
              ELSE IF cmd.msgs[Len(cmd.msgs)].type # "ToolMessage"
                   THEN Raise(Str("ValueError: Last message in command update is not a tool message"))
                   ELSE Return(cmd.msgs[Len(cmd.msgs)])
         ELSE IF cmd.update = "message"
              THEN Return(cmd.msgs[1])
              ELSE IF cmd.update = "none"
                   THEN Raise(Str("ValueError: Missing messages key in command update"))
                   ELSE Raise(Str("ValueError: Unexpected message type in command update"))
    ELSE Raise(Str("ValueError: Command update is not a dict"))

\* A status test that looks for the wrong word: no error result counts as failed.
HasToolCallFailed_WrongStatus(call, output) ==
    IF output.type = "ToolMessage"
    THEN Return(IF output.status = "failed" THEN "True" ELSE "False")
    ELSE IF output.type = "Command"
         THEN LET output_msg == GetToolMessage(output)
              IN  IF output_msg.raised
                  THEN Raise(output_msg.error)
                  ELSE Return(IF output_msg.value.status = "failed" THEN "True" ELSE "False")
         ELSE Return("None")

\* _has_tool_call_failed: "True", "False" or "None", or the ValueError of
\* _get_tool_message, which it does not catch.
HasToolCallFailed(call, output) ==
    IF output.type = "ToolMessage"
    THEN Return(IF output.status = "error" THEN "True" ELSE "False")
    ELSE IF output.type = "Command"
         THEN LET output_msg == GetToolMessage(output)
              IN  IF output_msg.raised
                  THEN Raise(output_msg.error)
                  ELSE Return(IF output_msg.value.status = "error" THEN "True" ELSE "False")
         ELSE Return("None")

\* An error result built from the message alone, tied to no call.
GetErroneousCommand_NoCall(call, message) ==
    Command("list", <<ToolMessage("", "", message, "error")>>)

\* _get_erroneous_command
GetErroneousCommand(call, message) ==
    Command("list", <<ToolMessage(call.name, call.id, message, "error")>>)

\* The messages the node synthesizes.
AbortedMessage == Str("Aborted: a previous tool call failed!")
UnexpectedTypeMessage(output) == <<"Unexpected tool output type: ", output.type>>
\* The exception text alone, without the prefix.
ParallelExceptionMessage_Bare(text) == text
ParallelExceptionMessage(text) == <<"Exception during parallel execution: ">> \o text
SyncExceptionMessage(text) == <<"Exception: ">> \o text

\* telemetry.capture_executor_action: fire-and-forget; an event the service cannot
\* deliver is dropped inside the service and nothing is raised to the caller.
TelemetryCapture(events, event) ==
    IF telemetry_up THEN Append(events, event) ELSE events

\* The error text _log_tool_result extracts from a failed output.
ErrorMsgOf(output) ==
    IF output.type = "ToolMessage"
    THEN output.content
    ELSE IF output.type = "Command"
         THEN LET tool_msg == GetToolMessage(output)
              IN  IF tool_msg.raised
                  THEN Str("Could not extract error details")
                  ELSE tool_msg.value.content
         ELSE <<>>

\* _log_tool_result, the log line: the call without its injected state, and the
\* error text when failed. The call itself is deep-copied first and stays as it was.
LogEntry(call, output, f) ==
    [call |-> [call EXCEPT !.args = call.args \ {"state"}],
     success |-> ~f,
     error |-> IF f THEN ErrorMsgOf(output) ELSE <<>>]

\* Telemetry captured in the failure branch only.
CaptureExecutorAction_OnlyFailures(events, call, output, f) ==
    IF trace_id # "None" /\ f
    THEN TelemetryCapture(events,
            [task_id |-> trace_id, tool_name |-> call.name, success |-> ~f,
             error |-> ErrorMsgOf(output)])
    ELSE events

\* _log_tool_result, the telemetry part: only with a trace id. The error text is
\* cut to 500 characters, which none of the texts here reaches.
CaptureExecutorAction(events, call, output, f) ==
    IF trace_id # "None"
    THEN TelemetryCapture(events,
            [task_id |-> trace_id, tool_name |-> call.name, success |-> ~f,
             error |-> IF f THEN ErrorMsgOf(output) ELSE <<>>])
    ELSE events

\* _log_tool_result(call, output, failed) as an update of log and captured.
LogToolResult(call, output, f) ==
    /\ log' = Append(log, LogEntry(call, output, f))
    /\ captured' = CaptureExecutorAction(captured, call, output, f)

\* Lines 101-107, 142-148, 157-163: classify an output; an unrecognized one is
\* replaced by a synthesized error. The ValueError of _has_tool_call_failed passes
\* through.
Classify(call, output) ==
    LET f == HasToolCallFailed(call, output)
    IN  IF f.raised
        THEN [raised |-> TRUE, error |-> f.error, output |-> output, failed |-> FALSE]
        ELSE IF f.value = "None"
             THEN [raised |-> FALSE, error |-> NoExc,
                   output |-> GetErroneousCommand(call, UnexpectedTypeMessage(output)),
                   failed |-> TRUE]
             ELSE [raised |-> FALSE, error |-> NoExc, output |-> output,
                   failed |-> (f.value = "True")]

\* ------------------------------------------------------------ dispatch: state machine
DispatchInit ==
    /\ sequential_execution \in BOOLEAN
    /\ is_async \in BOOLEAN
    /\ trace_id \in {"None", "trace-1"}
    /\ telemetry_up \in BOOLEAN
    /\ tool_calls \in {Batch(n) : n \in 1..MaxCalls}
    /\ dpc = "start"
    /\ idx = 1
    /\ failed = FALSE
    /\ outputs = <<>>
    /\ results = [i \in 1..Len(tool_calls) |-> NoResult]
    /\ started = <<>>
    /\ log = <<>>
    /\ captured = <<>>
    /\ raised_exc = NoExc

config_vars == <<sequential_execution, is_async, trace_id, telemetry_up, tool_calls>>

\* One loop iteration ends: the result is logged and appended (lines 109-110,
\* 150-151, 171-172).
RecordOutput(call, output, f) ==
    /\ LogToolResult(call, output, f)
    /\ outputs' = Append(outputs, output)
    /\ failed' = f
    /\ idx' = idx + 1

\* The exception leaves the dispatch: nothing is returned.
RaiseOut(text) ==
    /\ dpc' = "raised"
    /\ raised_exc' = text
    /\ UNCHANGED <<idx, failed, outputs, log, captured>>

\* __func: pick the discipline. In async parallel mode every call becomes a task
\* and asyncio.gather starts them all, in request order.
Func ==
    /\ dpc = "start"
    /\ IF sequential_execution
       THEN dpc' = "seq_loop" /\ UNCHANGED started
       ELSE IF is_async
            THEN dpc' = "par_gather" /\ started' = [i \in 1..N |-> i]
            ELSE dpc' = "sync_loop" /\ UNCHANGED started
    /\ UNCHANGED <<config_vars, idx, failed, outputs, results, log, captured, raised_exc>>
    /\ UNCHANGED dispatch_rest

\* _run_sequential, an iteration with failed set: the call is not run.
SeqAbort ==
    /\ dpc = "seq_loop"
    /\ idx <= N
    /\ failed
    /\ RecordOutput(tool_calls[idx], GetErroneousCommand(tool_calls[idx], AbortedMessage), failed)
    /\ UNCHANGED <<config_vars, dpc, results, started, raised_exc>>
    /\ UNCHANGED dispatch_rest

\* A loop that runs the tool without looking at `failed`.
SeqStart_IgnoresFailed ==
    /\ dpc = "seq_loop"
    /\ idx <= N
    /\ started' = Append(started, idx)
    /\ dpc' = "seq_await"
    /\ UNCHANGED <<config_vars, idx, failed, outputs, results, log, captured, raised_exc>>
    /\ UNCHANGED dispatch_rest

\* _run_sequential, an iteration with failed clear: the tool is started and awaited.
SeqStart ==
    /\ dpc = "seq_loop"
    /\ idx <= N
    /\ ~failed
    /\ started' = Append(started, idx)
    /\ dpc' = "seq_await"
    /\ UNCHANGED <<config_vars, idx, failed, outputs, results, log, captured, raised_exc>>
    /\ UNCHANGED dispatch_rest

\* _run_sequential: the awaited tool comes back. An exception of the tool, or of
\* _has_tool_call_failed, is not caught here.
SeqReturn ==
    /\ dpc = "seq_await"
    /\ \E outcome \in ToolOutcomes(tool_calls[idx]) :
         /\ results' = [results EXCEPT ![idx] = outcome]
         /\ IF outcome.type = "Exception"
            THEN RaiseOut(outcome.content)
            ELSE LET c == Classify(tool_calls[idx], outcome)
                 IN  IF c.raised
                     THEN RaiseOut(c.error)
                     ELSE /\ RecordOutput(tool_calls[idx], c.output, c.failed)
                          /\ dpc' = "seq_loop"
                          /\ UNCHANGED raised_exc
    /\ UNCHANGED <<config_vars, started>>
    /\ UNCHANGED dispatch_rest

\* _run_sequential returns _combine_tool_outputs(outputs, input_type).
SeqFinish ==
    /\ dpc = "seq_loop"
    /\ idx > N
    /\ dpc' = "done"
    /\ UNCHANGED <<config_vars, idx, failed, outputs, results, started, log, captured, raised_exc>>
    /\ UNCHANGED dispatch_rest

\* _run_parallel, async: one of the gathered tasks completes, in any order;
\* return_exceptions=True keeps its exception as its result.
ParComplete ==
    /\ dpc = "par_gather"
    /\ \E i \in 1..N :
         /\ results[i] = NoResult
         /\ \E outcome \in ToolOutcomes(tool_calls[i]) :
              results' = [results EXCEPT ![i] = outcome]
    /\ UNCHANGED <<config_vars, dpc, idx, failed, outputs, started, log, captured, raised_exc>>
    /\ UNCHANGED dispatch_rest

\* _run_parallel, async: gather returns once every task has completed.
ParGathered ==
    /\ dpc = "par_gather"
    /\ \A i \in 1..N : results[i] # NoResult
    /\ dpc' = "par_loop"
    /\ UNCHANGED <<config_vars, idx, failed, outputs, results, started, log, captured, raised_exc>>
    /\ UNCHANGED dispatch_rest

\* A parallel loop that falls back to the sequential discipline once a call failed.
ParOutput_AbortsAfterFailure(call, result) ==
    IF failed
    THEN [raised |-> FALSE, error |-> NoExc,
          output |-> GetErroneousCommand(call, AbortedMessage), failed |-> TRUE]
    ELSE IF result.type = "Exception"
         THEN [raised |-> FALSE, error |-> NoExc,
               output |-> GetErroneousCommand(call, ParallelExceptionMessage(result.content)),
               failed |-> TRUE]
         ELSE Classify(call, result)

\* Lines 134-148: the output for one gathered result; an exception kept by gather
\* becomes an error result.
ParOutput(call, result) ==
    IF result.type = "Exception"
    THEN [raised |-> FALSE, error |-> NoExc,
          output |-> GetErroneousCommand(call, ParallelExceptionMessage(result.content)),
          failed |-> TRUE]
    ELSE Classify(call, result)

\* _run_parallel, async: one iteration of `for call, result in zip(tool_calls, results)`.
ParStep ==
    /\ dpc = "par_loop"
    /\ idx <= N
    /\ LET call == tool_calls[idx]
           c == ParOutput(call, results[idx])
       IN  IF c.raised
           THEN RaiseOut(c.error)
           ELSE /\ RecordOutput(call, c.output, c.failed)
                /\ UNCHANGED <<dpc, raised_exc>>
    /\ UNCHANGED <<config_vars, results, started>>
    /\ UNCHANGED dispatch_rest

\* _run_parallel, sync fallback: the next call is started.
SyncStart ==
    /\ dpc = "sync_loop"
    /\ idx <= N
    /\ started' = Append(started, idx)
    /\ dpc' = "sync_run"
    /\ UNCHANGED <<config_vars, idx, failed, outputs, results, log, captured, raised_exc>>
    /\ UNCHANGED dispatch_rest

\* _run_parallel, sync fallback: the call comes back; the try/except turns every
\* exception, of the tool or of _has_tool_call_failed, into an error result.
SyncReturn ==
    /\ dpc = "sync_run"
    /\ \E outcome \in ToolOutcomes(tool_calls[idx]) :
         /\ results' = [results EXCEPT ![idx] = outcome]
         /\ LET call == tool_calls[idx]
            IN  IF outcome.type = "Exception"
                THEN RecordOutput(call,
                        GetErroneousCommand(call, SyncExceptionMessage(outcome.content)), TRUE)
                ELSE LET c == Classify(call, outcome)
                     IN  IF c.raised
                         THEN RecordOutput(call,
                                GetErroneousCommand(call, SyncExceptionMessage(c.error)), TRUE)
                         ELSE RecordOutput(call, c.output, c.failed)
    /\ dpc' = "sync_loop"
    /\ UNCHANGED <<config_vars, started, raised_exc>>
    /\ UNCHANGED dispatch_rest

\* _run_parallel returns _combine_tool_outputs(outputs, input_type).
ParFinish ==
    /\ dpc \in {"par_loop", "sync_loop"}
    /\ idx > N
    /\ dpc' = "done"
    /\ UNCHANGED <<config_vars, idx, failed, outputs, results, started, log, captured, raised_exc>>
    /\ UNCHANGED dispatch_rest

\* invoke_llm_with_timeout_message is not running.
TimeoutIdle ==
    /\ tpc = "idle"
    /\ llm_task = [state |-> "none", outcome |-> NoCall]
    /\ waiter_task = "none"
    /\ done = {}
    /\ llm_creations = 0
    /\ notices = 0
    /\ t_return = NoCall
    /\ t_invocations = 0
    /\ user_messages = <<>>

\* with_fallback is idle while the dispatch runs.
FallbackIdle ==
    /\ none_should_fallback = TRUE
    /\ wpc = "idle"
    /\ main_result = NoCall
    /\ fallback_result = NoCall
    /\ main_calls = 0
    /\ fallback_calls = 0
    /\ w_return = NoCall
    /\ invocations = 0
    /\ call_log = <<>>

DispatchNext ==
    \/ Func
    \/ SeqAbort
    \/ SeqStart
    \/ SeqReturn
    \/ SeqFinish
    \/ ParComplete
    \/ ParGathered
    \/ ParStep
    \/ SyncStart
    \/ SyncReturn
    \/ ParFinish

\* ------------------------------------------------------------ with_fallback
\* What main_call and fallback_call can do when awaited.
MainOutcomes ==
    {OutValue("main-answer"), OutNone, OutRaise("TimeoutError"), OutRaise("ValueError")}
FallbackOutcomes ==
    {OutValue("ok"), OutNone, OutRaise("RuntimeError"), OutRaise("TimeoutError")}

\* A None test that forgets the none_should_fallback parameter.
NoneFallsBack_Always(result, nsf) == result.kind = "none"

\* Line 293: whether a returned result sends with_fallback to the fallback.
NoneFallsBack(result, nsf) == result.kind = "none" /\ nsf

FallbackInit ==
    /\ none_should_fallback \in BOOLEAN
    /\ wpc = "idle"
    /\ main_result = NoCall
    /\ fallback_result = NoCall
    /\ main_calls = 0
    /\ fallback_calls = 0
    /\ w_return = NoCall
    /\ invocations = 0
    /\ call_log = <<>>

\* The tool dispatch is idle while with_fallback runs.
DispatchIdle ==
    /\ sequential_execution = TRUE
    /\ is_async = TRUE
    /\ trace_id = "None"
    /\ telemetry_up = TRUE
    /\ tool_calls = <<>>
    /\ dpc = "idle"
    /\ idx = 1
    /\ failed = FALSE
    /\ outputs = <<>>
    /\ results = <<>>
    /\ started = <<>>
    /\ log = <<>>
    /\ captured = <<>>
    /\ raised_exc = NoExc

\* Lines 291-298: `result = await main_call()` inside the try. An exception goes
\* to the except clause; None with none_should_fallback goes to the fallback call
\* of line 295, still inside the try; anything else is returned.
CallMain ==
    /\ wpc = "idle"
    /\ invocations < MaxInvocations
    /\ \E out \in MainOutcomes :
         /\ main_result' = out
         /\ main_calls' = main_calls + 1
         /\ call_log' = Append(call_log, "main_call")
         /\ IF out.kind = "raise"
            THEN wpc' = "except" /\ UNCHANGED w_return
            ELSE IF NoneFallsBack(out, none_should_fallback)
                 THEN wpc' = "try_fallback" /\ UNCHANGED w_return
                 ELSE wpc' = "returned" /\ w_return' = out
    /\ UNCHANGED <<none_should_fallback, fallback_result, fallback_calls, invocations>>
    /\ UNCHANGED fallback_rest

\* Line 295: `return await fallback_call()` inside the try. An exception of the
\* fallback is raised inside the try block, so the except clause of line 297
\* catches it.
FallbackInTry ==
    /\ wpc = "try_fallback"
    /\ \E out \in FallbackOutcomes :
         /\ fallback_result' = out
         /\ fallback_calls' = fallback_calls + 1
         /\ call_log' = Append(call_log, "fallback_call")
         /\ IF out.kind = "raise"
            THEN wpc' = "except" /\ UNCHANGED w_return
            ELSE wpc' = "returned" /\ w_return' = out
    /\ UNCHANGED <<none_should_fallback, main_result, main_calls, invocations>>
    /\ UNCHANGED fallback_rest

\* Lines 297-299: the except clause: `return await fallback_call()`. An exception
\* raised here leaves with_fallback.
FallbackInExcept ==
    /\ wpc = "except"
    /\ \E out \in FallbackOutcomes :
         /\ fallback_result' = out
         /\ fallback_calls' = fallback_calls + 1
         /\ call_log' = Append(call_log, "fallback_call")
         /\ w_return' = out
         /\ wpc' = IF out.kind = "raise" THEN "raised" ELSE "returned"
    /\ UNCHANGED <<none_should_fallback, main_result, main_calls, invocations>>
    /\ UNCHANGED fallback_rest

\* The caller (a reasoning node, once per graph cycle) invokes with_fallback again.
NextInvocation ==
    /\ wpc \in {"returned", "raised"}
    /\ invocations' = invocations + 1
    /\ none_should_fallback' \in BOOLEAN
    /\ wpc' = "idle"
    /\ main_result' = NoCall
    /\ fallback_result' = NoCall
    /\ main_calls' = 0
    /\ fallback_calls' = 0
    /\ w_return' = NoCall
    /\ UNCHANGED call_log
    /\ UNCHANGED fallback_rest

FallbackNext ==
    \/ CallMain
    \/ FallbackInTry
    \/ FallbackInExcept
    \/ NextInvocation

\* ------------------------------------------------------------ State
\* Python values whose type or truthiness the code tests: `v` is the value's
\* elements (characters of a str, items of a list), so "" and [] are <<>>.
PyNone == [kind |-> "None", v |-> <<>>]
PyStr(s) == [kind |-> "str", v |-> IF s = "" THEN <<>> ELSE <<s>>]
PyList(l) == [kind |-> "list", v |-> l]
PyInt(n) == [kind |-> "int", v |-> <<n>>]

\* bool(x) for the values above: None, "" and [] are falsy.
Truthy(x) == x.kind # "None" /\ x.v # <<>>

\* A message of executor_messages: its class, its tool_calls and its content.
Message(type, calls, content) == [type |-> type, tool_calls |-> calls, content |-> content]
AIWithTools(calls) == Message("AIMessage", calls, "")
AIText(content) == Message("AIMessage", <<>>, content)
ToolResult == Message("ToolMessage", <<>>, "ok")
Human == Message("HumanMessage", <<>>, "goal")

\* The State fields the graph reads or writes (state.py:30-61; the fields
\* complete_subgoals_by_ids and monolithic_is_complete are read by graph.py).
Fields ==
    {"subgoal_plan", "latest_screenshot", "latest_ui_hierarchy", "focused_app_info",
     "device_date", "structured_decisions", "complete_subgoals_by_ids",
     "executor_messages", "agents_thoughts", "monolithic_is_complete"}

\* The reducer each field is annotated with ("none": no reducer declared).
Reducer(f) ==
    CASE f \in {"latest_screenshot", "latest_ui_hierarchy", "focused_app_info",
                "device_date", "structured_decisions", "complete_subgoals_by_ids",
                "monolithic_is_complete"} -> "take_last"
      [] f = "executor_messages" -> "add_messages"
      [] f = "agents_thoughts" -> "add_agent_thought"
      [] OTHER -> "none"

\* take_last(a, b)
TakeLast(a, b) == b

\* The str a PyStr stands for.
StrOf(x) == IF x.v = <<>> THEN "" ELSE x.v[1]

\* A reducer that puts the new thoughts in front.
AddAgentThought_Prepends(a, b) == IF b.kind = "str" THEN <<StrOf(b)>> \o a ELSE b.v \o a

\* add_agent_thought(a, b) for a str b (`a + [b]`) or a list b (`a + b`).
AddAgentThought(a, b) == IF b.kind = "str" THEN a \o <<StrOf(b)>> ELSE a \o b.v

\* add_agent_thought raises TypeError for any other b.
AddAgentThoughtRaises(b) == b.kind \notin {"str", "list"}

\* add_messages(a, b): the new messages are appended (none of the model's
\* messages replaces an earlier one by id).
AddMessages(a, b) == a \o b

\* The value a field takes when an update carries `b` for it.
Reduce(f, a, b) ==
    CASE Reducer(f) = "take_last" -> TakeLast(a, b)
      [] Reducer(f) = "add_agent_thought" -> AddAgentThought(a, b)
      [] Reducer(f) = "add_messages" -> AddMessages(a, b)
      [] OTHER -> b

\* An update applied to every field whether or not the update carries it.
ApplyUpdate_ReducesAbsent(state, update) ==
    [f \in Fields |->
        IF f \in DOMAIN update THEN Reduce(f, state[f], update[f])
        ELSE IF Reducer(f) = "take_last" THEN PyNone ELSE state[f]]

\* A partial update merged into the State: the fields the update carries go
\* through their reducer, the others keep their value.
ApplyUpdate(state, update) ==
    [f \in Fields |->
        IF f \in DOMAIN update THEN Reduce(f, state[f], update[f]) ELSE state[f]]

\* The exception merging update number i of a step raises ("none": none):
\* add_agent_thought's TypeError, or the framework's InvalidUpdateError when a
\* field without reducer receives a second value in the same step.
UpdateError(updates, i) ==
    IF "agents_thoughts" \in DOMAIN updates[i]
       /\ AddAgentThoughtRaises(updates[i]["agents_thoughts"])
      THEN "TypeError"
    ELSE IF \E j \in 1..(i - 1) : \E f \in DOMAIN updates[i] \cap DOMAIN updates[j] :
               Reducer(f) = "none"
      THEN "InvalidUpdateError"
    ELSE "none"

\* ------------------------------------------ invoke_llm_with_timeout_message
\* What the wrapped LLM call can do when it completes.
LlmOutcomes ==
    {OutValue("answer"), OutValue("other-answer"), OutNone,
     OutRaise("TimeoutError"), OutRaise("RateLimitError")}

WaitingNotice == "Waiting for LLM call response..."

\* A branch test that looks at the timer instead of the call.
LlmFinishedFirst_TimerNotDone(done_set) == "waiter_task" \notin done_set

\* Line 49: `if llm_task in done`.
LlmFinishedFirst(done_set) == "llm_task" \in done_set

\* Task.cancel(): a pending task becomes cancelled, a finished one is left alone.
Cancel(task_state) == IF task_state = "pending" THEN "cancelled" ELSE task_state

\* `return llm_task.result()` / `return await llm_task`: the finished task's
\* value is returned, its exception is re-raised.
TimeoutDeliver ==
    /\ tpc' = IF llm_task.outcome.kind = "raise" THEN "raised" ELSE "returned"
    /\ t_return' = llm_task.outcome

\* Lines 44-47: both tasks are created, then the wrapper suspends in asyncio.wait.
TimeoutCreateTasks ==
    /\ tpc = "idle"
    /\ t_invocations < MaxLlmCalls
    /\ llm_task' = [state |-> "pending", outcome |-> NoCall]
    /\ waiter_task' = "pending"
    /\ llm_creations' = 1
    /\ notices' = 0
    /\ done' = {}
    /\ t_return' = NoCall
    /\ tpc' = "wait"
    /\ UNCHANGED <<t_invocations, user_messages>>
    /\ UNCHANGED timeout_rest

\* The event loop completes the LLM call (it returns or raises).
LlmCompletes ==
    /\ tpc \in {"wait", "await_llm"}
    /\ llm_task.state = "pending"
    /\ \E o \in LlmOutcomes : llm_task' = [state |-> "finished", outcome |-> o]
    /\ UNCHANGED <<tpc, waiter_task, done, llm_creations, notices, t_return,
                   t_invocations, user_messages>>
    /\ UNCHANGED timeout_rest

\* The event loop completes asyncio.sleep(timeout_seconds).
TimerFires ==
    /\ tpc = "wait"
    /\ waiter_task = "pending"
    /\ waiter_task' = "finished"
    /\ UNCHANGED <<tpc, llm_task, done, llm_creations, notices, t_return,
                   t_invocations, user_messages>>
    /\ UNCHANGED timeout_rest

\* Lines 47-55: asyncio.wait(..., FIRST_COMPLETED) resumes the wrapper once at
\* least one task has finished; `done` holds every task finished by then.
WaitReturns ==
    /\ tpc = "wait"
    /\ llm_task.state = "finished" \/ waiter_task = "finished"
    /\ done' = {t \in {"llm_task"} : llm_task.state = "finished"}
                 \cup {t \in {"waiter_task"} : waiter_task = "finished"}
    /\ IF LlmFinishedFirst(done')
         THEN /\ waiter_task' = Cancel(waiter_task)
              /\ TimeoutDeliver
              /\ UNCHANGED <<notices, user_messages>>
         ELSE /\ notices' = notices + 1
              /\ user_messages' = Append(user_messages, WaitingNotice)
              /\ tpc' = "await_llm"
              /\ UNCHANGED <<waiter_task, t_return>>
    /\ UNCHANGED <<llm_task, llm_creations, t_invocations>>
    /\ UNCHANGED timeout_rest

\* Line 56: `return await llm_task` resumes when the call has finished.
AwaitLlm ==
    /\ tpc = "await_llm"
    /\ llm_task.state = "finished"
    /\ TimeoutDeliver
    /\ UNCHANGED <<llm_task, waiter_task, done, llm_creations, notices,
                   t_invocations, user_messages>>
    /\ UNCHANGED timeout_rest

\* The caller makes its next LLM call through the wrapper
\* (monolithic.py awaits one wrapper call per main and per fallback call).
TimeoutNextCall ==
    /\ tpc \in {"returned", "raised"}
    /\ t_invocations' = t_invocations + 1
    /\ tpc' = "idle"
    /\ UNCHANGED <<llm_task, waiter_task, done, llm_creations, notices, t_return,
                   user_messages>>
    /\ UNCHANGED timeout_rest

TimeoutInit ==
    /\ tpc = "idle"
    /\ llm_task = [state |-> "none", outcome |-> NoCall]
    /\ waiter_task = "none"
    /\ done = {}
    /\ llm_creations = 0
    /\ notices = 0
    /\ t_return = NoCall
    /\ t_invocations = 0
    /\ user_messages = <<>>

TimeoutNext ==
    \/ TimeoutCreateTasks
    \/ LlmCompletes
    \/ TimerFires
    \/ WaitReturns
    \/ AwaitLlm
    \/ TimeoutNextCall

\* ------------------------------------------------------------ routing
END == "__end__"

SubgoalStatuses == {"PENDING", "RUNNING", "SUCCESS", "FAILURE"}

\* agents/planner/utils.py
one_of_them_is_failure(plan) == \E i \in 1..Len(plan) : plan[i] = "FAILURE"
all_completed(plan) == \A i \in 1..Len(plan) : plan[i] = "SUCCESS"
\* TRUE when there is a current subgoal (the function returns it, else None).
get_current_subgoal(plan) == \E i \in 1..Len(plan) : plan[i] \in {"PENDING", "RUNNING"}

\* A gate that looks for a current subgoal before it looks for a failure.
ConvergenceGate_CurrentFirst(state) ==
    IF ~get_current_subgoal(state.subgoal_plan) THEN "end"
    ELSE IF one_of_them_is_failure(state.subgoal_plan) THEN "replan"
    ELSE IF all_completed(state.subgoal_plan) THEN "end"
    ELSE "continue"

\* convergence_gate
ConvergenceGate(state) ==
    IF one_of_them_is_failure(state.subgoal_plan) THEN "replan"
    ELSE IF all_completed(state.subgoal_plan) THEN "end"
    ELSE IF ~get_current_subgoal(state.subgoal_plan) THEN "end"
    ELSE "continue"

\* A gate without the `or not state.structured_decisions` default.
PostCortexGate_NoDefault(state) ==
    (IF Len(state.complete_subgoals_by_ids) > 0 THEN <<"review_subgoals">> ELSE <<>>)
    \o (IF Truthy(state.structured_decisions) THEN <<"execute_decisions">> ELSE <<>>)

\* post_cortex_gate
PostCortexGate(state) ==
    (IF Len(state.complete_subgoals_by_ids) > 0 \/ ~Truthy(state.structured_decisions)
       THEN <<"review_subgoals">> ELSE <<>>)
    \o (IF Truthy(state.structured_decisions) THEN <<"execute_decisions">> ELSE <<>>)

\* `isinstance(last_message, AIMessage)` and `tool_calls and len(tool_calls) > 0`
\* for the last of a non-empty list of messages.
LastHasToolCalls(messages) ==
    /\ messages[Len(messages)].type = "AIMessage"
    /\ Len(messages[Len(messages)].tool_calls) > 0

\* A gate that dispatches whenever the last message is an AIMessage.
PostExecutorGate_AnyAIMessage(state) ==
    IF state.executor_messages = <<>> THEN "skip"
    ELSE IF state.executor_messages[Len(state.executor_messages)].type = "AIMessage"
      THEN "invoke_tools"
    ELSE "skip"

\* A gate that remembers it was called before.
PostExecutorGate_SkipsSecondCall(state) ==
    IF r_evals > 0 THEN "skip"
    ELSE IF state.executor_messages = <<>> THEN "skip"
    ELSE IF LastHasToolCalls(state.executor_messages) THEN "invoke_tools"
    ELSE "skip"

\* post_executor_gate
PostExecutorGate(state) ==
    IF state.executor_messages = <<>> THEN "skip"
    ELSE IF LastHasToolCalls(state.executor_messages) THEN "invoke_tools"
    ELSE "skip"

\* A gate that looks at the tool calls before the completion flag.
PostMonolithicGate_ToolsFirst(state) ==
    IF state.executor_messages # <<>> /\ LastHasToolCalls(state.executor_messages)
      THEN "invoke_tools"
    ELSE IF state.monolithic_is_complete THEN "complete"
    ELSE "continue"

\* post_monolithic_gate
PostMonolithicGate(state) ==
    IF state.monolithic_is_complete THEN "complete"
    ELSE IF state.executor_messages = <<>> THEN "continue"
    ELSE IF LastHasToolCalls(state.executor_messages) THEN "invoke_tools"
    ELSE "continue"

\* The path maps of add_conditional_edges.
\* A path map that sends the Act branch to the planner.
CortexPathMap_ActToPlanner(label) ==
    IF label = "review_subgoals" THEN "orchestrator" ELSE "planner"

CortexPathMap(label) ==
    IF label = "review_subgoals" THEN "orchestrator" ELSE "executor"

ExecutorPathMap(label) ==
    IF label = "invoke_tools" THEN "executor_tools" ELSE "summarizer"

ConvergencePathMap(label) ==
    CASE label = "continue" -> "contextor"
      [] label = "replan" -> "planner"
      [] OTHER -> END

MonolithicPathMap(label) ==
    CASE label = "invoke_tools" -> "tools"
      [] label = "complete" -> END
      [] OTHER -> "contextor"

\* The nodes of each graph, and the node START leads to.
NodesOf(mode) ==
    IF mode = "multi"
      THEN {"planner", "orchestrator", "contextor", "cortex", "executor",
            "executor_tools", "summarizer", "convergence"}
      ELSE {"contextor", "monolithic", "tools"}

EntryNode(mode) == IF mode = "multi" THEN "planner" ELSE "contextor"

Range(seq) == {seq[i] : i \in 1..Len(seq)}

\* What the routing function attached to a node returns on `state`
\* (<<>> for a node that has plain edges only).
Route(mode, node, state) ==
    CASE mode = "multi" /\ node = "cortex" -> PostCortexGate(state)
      [] mode = "multi" /\ node = "executor" -> <<PostExecutorGate(state)>>
      [] mode = "multi" /\ node = "convergence" -> <<ConvergenceGate(state)>>
      [] mode = "mono" /\ node = "monolithic" -> <<PostMonolithicGate(state)>>
      [] OTHER -> <<>>

\* The nodes a finished node schedules: its plain edges and the targets its
\* routing function selects.
Successors(mode, node, state) ==
    IF mode = "multi"
      THEN CASE node = "planner" -> {"orchestrator"}
             [] node = "orchestrator" -> {"convergence"}
             [] node = "contextor" -> {"cortex"}
             [] node = "cortex" ->
                  {CortexPathMap(l) : l \in Range(Route(mode, node, state))}
             [] node = "executor" ->
                  {ExecutorPathMap(l) : l \in Range(Route(mode, node, state))}
             [] node = "executor_tools" -> {"summarizer"}
             [] node = "summarizer" -> {"convergence"}
             [] OTHER ->
                  {ConvergencePathMap(l) : l \in Range(Route(mode, node, state))}
      ELSE CASE node = "contextor" -> {"monolithic"}
             [] node = "monolithic" ->
                  {MonolithicPathMap(l) : l \in Range(Route(mode, node, state))}
             [] OTHER -> {"contextor"}

\* --------------------------------------------- routing functions, evaluated
Plans == UNION { [1..n -> SubgoalStatuses] : n \in 0..MaxSubgoals }

MessageLists ==
    {<<>>, <<Human>>, <<AIText("thinking")>>, <<AIWithTools(<<"tap">>)>>,
     <<AIWithTools(<<"tap">>), ToolResult>>,
     <<ToolResult, AIWithTools(<<"tap">>)>>}

RoutingStates ==
    { [subgoal_plan |-> sp, latest_screenshot |-> PyNone, latest_ui_hierarchy |-> PyNone,
       focused_app_info |-> PyNone, device_date |-> PyNone, structured_decisions |-> sd,
       complete_subgoals_by_ids |-> cs, executor_messages |-> em,
       agents_thoughts |-> <<>>, monolithic_is_complete |-> mc] :
        sp \in Plans,
        sd \in {PyNone, PyStr(""), PyStr("tap")},
        cs \in {<<>>, <<"s1">>},
        em \in MessageLists,
        mc \in BOOLEAN }

RoutingInit ==
    /\ r_mode \in {"multi", "mono"}
    /\ r_state \in RoutingStates
    /\ r_node = "none"
    /\ r_route = <<>>
    /\ r_next = {}
    /\ r_evals = 0
    /\ r_seen = {}

\* No routing function is being evaluated.
RoutingIdle ==
    /\ r_mode = "none"
    /\ r_state = <<>>
    /\ r_node = "none"
    /\ r_route = <<>>
    /\ r_next = {}
    /\ r_evals = 0
    /\ r_seen = {}

\* A node of the graph has finished on r_state: its routing function is
\* evaluated and its successors are scheduled.
EvalRoute ==
    /\ r_evals < MaxEvals
    /\ \E n \in NodesOf(r_mode) :
          /\ r_node' = n
          /\ r_route' = Route(r_mode, n, r_state)
          /\ r_next' = Successors(r_mode, n, r_state)
          /\ r_seen' = r_seen \cup {<<n, Route(r_mode, n, r_state), Successors(r_mode, n, r_state)>>}
    /\ r_evals' = r_evals + 1
    /\ UNCHANGED <<r_mode, r_state>>
    /\ UNCHANGED routing_rest

RoutingNext == EvalRoute

\* ------------------------------------------------------------ State merge
\* The States and partial updates one step is tried on.
MergeStates ==
    { [subgoal_plan |-> sp, latest_screenshot |-> PyNone, latest_ui_hierarchy |-> ui,
       focused_app_info |-> PyNone, device_date |-> PyNone, structured_decisions |-> sd,
       complete_subgoals_by_ids |-> <<>>, executor_messages |-> em,
       agents_thoughts |-> at, monolithic_is_complete |-> FALSE] :
        sp \in {<<>>, <<"PENDING">>},
        ui \in {PyNone, PyList(<<"node">>)},
        sd \in {PyNone, PyStr("tap")},
        em \in {<<>>, <<AIWithTools(<<"tap">>)>>},
        at \in {<<>>, <<"t0">>} }

MergeUpdates ==
    { <<>> }
    \cup { [structured_decisions |-> x] : x \in {PyNone, PyStr("tap"), PyStr("swipe")} }
    \cup { [latest_ui_hierarchy |-> x] : x \in {PyNone, PyList(<<"node2">>)} }
    \cup { [agents_thoughts |-> x] :
             x \in {PyStr("t1"), PyList(<<>>), PyList(<<"t1", "t2">>), PyInt("42")} }
    \cup { [executor_messages |-> x] : x \in {<<>>, <<ToolResult>>} }
    \cup { [subgoal_plan |-> <<"RUNNING">>] }
    \cup { [structured_decisions |-> PyNone, executor_messages |-> <<AIText("thinking")>>] }

StepUpdates == UNION { [1..n -> MergeUpdates] : n \in 0..MaxStepUpdates }

MergeInit ==
    /\ m_state \in MergeStates
    /\ m_updates \in StepUpdates
    /\ m_i = 1
    /\ m_merged = m_state
    /\ m_pc = "merging"
    /\ m_error = "none"
    /\ m_reducer_log = {}

\* No step is being merged.
MergeIdle ==
    /\ m_state = <<>>
    /\ m_updates = <<>>
    /\ m_i = 0
    /\ m_merged = <<>>
    /\ m_pc = "idle"
    /\ m_error = "none"
    /\ m_reducer_log = {}

\* The next update of the step goes through the reducers of the fields it carries.
MergeApplyUpdate ==
    /\ m_pc = "merging"
    /\ m_i <= Len(m_updates)
    /\ UpdateError(m_updates, m_i) = "none"
    /\ m_merged' = ApplyUpdate(m_merged, m_updates[m_i])
    /\ m_reducer_log' = m_reducer_log \cup
                          {<<m_i, f>> : f \in {g \in DOMAIN m_updates[m_i] : Reducer(g) # "none"}}
    /\ m_i' = m_i + 1
    /\ UNCHANGED <<m_state, m_updates, m_pc, m_error>>
    /\ UNCHANGED merge_rest

\* A reducer (or the framework, for a field without one) raises: the step fails.
MergeRaise ==
    /\ m_pc = "merging"
    /\ m_i <= Len(m_updates)
    /\ UpdateError(m_updates, m_i) # "none"
    /\ m_error' = UpdateError(m_updates, m_i)
    /\ m_pc' = "failed"
    /\ UNCHANGED <<m_state, m_updates, m_i, m_merged, m_reducer_log>>
    /\ UNCHANGED merge_rest

\* Every update of the step is merged: m_merged is the next step's State.
MergeCommit ==
    /\ m_pc = "merging"
    /\ m_i > Len(m_updates)
    /\ m_pc' = "committed"
    /\ UNCHANGED <<m_state, m_updates, m_i, m_merged, m_error, m_reducer_log>>
    /\ UNCHANGED merge_rest

MergeNext ==
    \/ MergeApplyUpdate
    \/ MergeRaise
    \/ MergeCommit

\* ------------------------------------------------------------ graph run
\* The State a run starts from: no plan, no decision, no messages.
InitialState ==
    [subgoal_plan |-> <<>>, latest_screenshot |-> PyNone, latest_ui_hierarchy |-> PyNone,
     focused_app_info |-> PyNone, device_date |-> PyNone, structured_decisions |-> PyNone,
     complete_subgoals_by_ids |-> <<>>, executor_messages |-> <<>>,
     agents_thoughts |-> <<>>, monolithic_is_complete |-> FALSE]

\* A graph whose convergence node is an ordinary node.
Deferred_Never(mode, node) == FALSE

\* add_node(node="convergence", ..., defer=True): a deferred node runs only
\* when no other node is left to run.
Deferred(mode, node) == mode = "multi" /\ node = "convergence"

\* A run that is never stopped.
OutOfSteps_Never(step) == FALSE

\* The run is stopped with GraphRecursionError when nodes are still scheduled
\* after `step` steps and the limit is reached.
OutOfSteps(step) == step >= RecursionLimit

\* The order in which the updates of one step are merged.
NodeOrder ==
    <<"planner", "orchestrator", "contextor", "cortex", "executor", "executor_tools",
      "summarizer", "convergence", "monolithic", "tools">>

RECURSIVE ApplyWrites(_, _, _)
ApplyWrites(state, w, i) ==
    IF i > Len(NodeOrder) THEN state
    ELSE ApplyWrites(IF NodeOrder[i] \in DOMAIN w
                       THEN ApplyUpdate(state, w[NodeOrder[i]]) ELSE state,
                     w, i + 1)

\* Two nodes of the step wrote a field that has no reducer.
InvalidUpdate(w) ==
    \E n1, n2 \in DOMAIN w : \E f \in DOMAIN w[n1] \cap DOMAIN w[n2] :
        n1 # n2 /\ Reducer(f) = "none"

\* The plans the planner can produce: fresh subgoals, none started.
NewPlans == UNION { [1..n -> {"PENDING"}] : n \in 0..MaxSubgoals }

\* A subgoal's status only moves forward: PENDING -> RUNNING -> SUCCESS | FAILURE.
Advances(from, to) ==
    \/ to = from
    \/ from = "PENDING" /\ to = "RUNNING"
    \/ from = "RUNNING" /\ to \in {"SUCCESS", "FAILURE"}

\* The plans the orchestrator can turn `plan` into.
Forward(plan) ==
    {q \in [1..Len(plan) -> SubgoalStatuses] : \A i \in 1..Len(plan) : Advances(plan[i], q[i])}

\* The updates each node outside src/ may return (its share of the State).
PlannerUpdates(state) == {[subgoal_plan |-> p] : p \in NewPlans}

OrchestratorUpdates(state) ==
    {[subgoal_plan |-> p, complete_subgoals_by_ids |-> <<>>,
      agents_thoughts |-> PyList(<<"orchestrator">>)] : p \in Forward(state.subgoal_plan)}

CortexUpdates(state) ==
    {[structured_decisions |-> sd, complete_subgoals_by_ids |-> cs,
      latest_ui_hierarchy |-> PyNone, latest_screenshot |-> PyNone,
      focused_app_info |-> PyNone, device_date |-> PyNone] :
        sd \in {PyNone, PyStr(""), PyStr("tap")}, cs \in {<<>>, <<"s1">>}}

ExecutorUpdates(state) ==
    {[executor_messages |-> <<m>>, structured_decisions |-> PyNone] :
        m \in {AIWithTools(<<"tap">>), AIText("thinking")}}

SummarizerUpdates(state) == {<<>>}

\* ContextorNode: the perception snapshot.
ContextorUpdates(state) ==
    {[latest_ui_hierarchy |-> PyList(<<"node">>), latest_screenshot |-> PyStr("png"),
      focused_app_info |-> PyStr("app"), device_date |-> PyStr("date")]}

\* ExecutorToolNode: one ToolMessage per tool call of the last message, and
\* the thoughts the tools return with them.
ToolNodeUpdates(state) ==
    LET calls == IF state.executor_messages = <<>> THEN <<>>
                 ELSE state.executor_messages[Len(state.executor_messages)].tool_calls
    IN  {[executor_messages |-> [i \in 1..Len(calls) |-> ToolResult],
          agents_thoughts |-> PyList(calls)]}

\* convergence_node
ConvergenceUpdates(state) == {<<>>}

\* MonolithicContextorNode: get_screen_data may fail (both None); the
\* screenshot is kept only when vision is enabled.
MonolithicContextorUpdates(state) ==
    {[latest_ui_hierarchy |-> ui, latest_screenshot |-> shot, device_date |-> PyStr("date")] :
        ui \in {PyList(<<"node">>)}, shot \in {PyNone, PyStr("png")}}
    \cup {[latest_ui_hierarchy |-> PyNone, latest_screenshot |-> PyNone,
           device_date |-> PyStr("date")]}

\* get_device_date: the date string, or the exception of get_adb_device when
\* the device is not found.
DeviceDateOutcomes == {OutValue("date"), OutRaise("ConnectionError")}

\* with_fallback with none_should_fallback left at its default: the outcome of
\* the whole call from the outcome of the main call and of the fallback calls
\* (the fallback awaited inside the try is awaited again when it raises).
WithFallback(main, first, second) ==
    IF main.kind = "raise" THEN first
    ELSE IF NoneFallsBack(main, TRUE)
      THEN IF first.kind = "raise" THEN second ELSE first
    ELSE main

\* What the LLM answers the monolithic agent.
MonolithicResponses ==
    {AIWithTools(<<"tap">>), AIText("thinking"), AIText("The task is complete"), AIText(""),
     Message("AIMessage", <<"tap">>, "The task is complete")}

\* Lines 138-151: the completion phrases, searched in the lower-cased content.
HasCompletionPhrase(content) == content \in {"The task is complete"}

\* A completion test that looks at the text alone.
IsComplete_IgnoresToolCalls(response) ==
    /\ response.type = "AIMessage"
    /\ response.content # ""
    /\ HasCompletionPhrase(response.content)

IsComplete(response) ==
    /\ response.type = "AIMessage"
    /\ response.tool_calls = <<>>
    /\ response.content # ""
    /\ HasCompletionPhrase(response.content)

\* An update that leaves the device date in the State.
MonolithicUpdates_KeepsDate(state) ==
    {[executor_messages |-> <<r>>, latest_ui_hierarchy |-> PyNone,
      latest_screenshot |-> PyNone, focused_app_info |-> PyNone,
      monolithic_is_complete |-> IsComplete(r)] : r \in MonolithicResponses}

\* MonolithicNode.__call__: the update it returns.
MonolithicUpdates(state) ==
    {[executor_messages |-> <<r>>, latest_ui_hierarchy |-> PyNone,
      latest_screenshot |-> PyNone, focused_app_info |-> PyNone, device_date |-> PyNone,
      monolithic_is_complete |-> IsComplete(r)] : r \in MonolithicResponses}

NoEpoch ==
    [branch |-> {}, scheduled |-> {}, done |-> {}, conv_runs |-> 0, replanned |-> FALSE]

NoRaise == [node |-> "none", exc |-> "none"]

GraphInit ==
    /\ g_mode \in {"multi", "mono"}
    /\ g_state = InitialState
    /\ active = {EntryNode(g_mode)}
    /\ writes = <<>>
    /\ waiting = {}
    /\ supersteps = 0
    /\ gstatus = "running"
    /\ epoch = NoEpoch
    /\ g_exc = NoRaise
    /\ prev_step = {}

\* No graph runs.
GraphIdle ==
    /\ g_mode = "none"
    /\ g_state = <<>>
    /\ active = {}
    /\ writes = <<>>
    /\ waiting = {}
    /\ supersteps = 0
    /\ gstatus = "idle"
    /\ epoch = NoEpoch
    /\ g_exc = NoRaise
    /\ prev_step = {}

\* A scheduled node runs on the step's State and returns its update; the
\* update is held until the step ends.
RunNode(mode, node, update) ==
    /\ gstatus = "running"
    /\ g_mode = mode
    /\ node \in active
    /\ node \notin DOMAIN writes
    /\ writes' = [n \in DOMAIN writes \cup {node} |-> IF n = node THEN update ELSE writes[n]]
    /\ epoch' = IF node \in {"planner", "cortex"}
                  THEN [NoEpoch EXCEPT !.done = {node}, !.replanned = epoch.replanned]
                ELSE [epoch EXCEPT !.done = @ \cup {node},
                                   !.conv_runs = IF node = "convergence" THEN @ + 1 ELSE @]
    /\ UNCHANGED <<g_mode, g_state, active, waiting, supersteps, gstatus, g_exc, prev_step>>
    /\ UNCHANGED graph_rest

\* A scheduled node raises: nothing of the step is written and the exception
\* leaves the run.
NodeRaises(mode, node, exc) ==
    /\ gstatus = "running"
    /\ g_mode = mode
    /\ node \in active
    /\ node \notin DOMAIN writes
    /\ gstatus' = "NodeException"
    /\ g_exc' = [node |-> node, exc |-> exc]
    /\ active' = {}
    /\ writes' = <<>>
    /\ UNCHANGED <<g_mode, g_state, waiting, supersteps, epoch, prev_step>>
    /\ UNCHANGED graph_rest

PlannerNode == \E u \in PlannerUpdates(g_state) : RunNode("multi", "planner", u)
OrchestratorNode == \E u \in OrchestratorUpdates(g_state) : RunNode("multi", "orchestrator", u)
ContextorNode == \E u \in ContextorUpdates(g_state) : RunNode("multi", "contextor", u)
CortexNode == \E u \in CortexUpdates(g_state) : RunNode("multi", "cortex", u)
ExecutorNode == \E u \in ExecutorUpdates(g_state) : RunNode("multi", "executor", u)
ExecutorToolsNode == \E u \in ToolNodeUpdates(g_state) : RunNode("multi", "executor_tools", u)
SummarizerNode == \E u \in SummarizerUpdates(g_state) : RunNode("multi", "summarizer", u)
ConvergenceNode == \E u \in ConvergenceUpdates(g_state) : RunNode("multi", "convergence", u)
MonolithicContextorNode ==
    \E u \in MonolithicContextorUpdates(g_state) : RunNode("mono", "contextor", u)
MonolithicNode == \E u \in MonolithicUpdates(g_state) : RunNode("mono", "monolithic", u)

\* MonolithicContextorNode.__call__, line 227: get_device_date is called outside
\* the try block, so what it raises leaves the node.
MonolithicContextorRaises ==
    \E date \in DeviceDateOutcomes :
        /\ date.kind = "raise"
        /\ NodeRaises("mono", "contextor", date.v)

\* MonolithicNode.__call__, lines 132-135: the awaited with_fallback is not
\* inside any try block, so what it raises leaves the node.
MonolithicNodeRaises ==
    \E main \in MainOutcomes, first \in FallbackOutcomes, second \in FallbackOutcomes :
        /\ WithFallback(main, first, second).kind = "raise"
        /\ NodeRaises("mono", "monolithic", WithFallback(main, first, second).v)
ToolsNode == \E u \in ToolNodeUpdates(g_state) : RunNode("mono", "tools", u)

\* Every node of the step has returned: the updates are merged, each node's
\* edges are followed on the State with its own update, and the next step is
\* scheduled. Deferred nodes are held until nothing else is scheduled; the run
\* ends when nothing is scheduled at all.
EndStep ==
    /\ gstatus = "running"
    /\ active # {}
    /\ DOMAIN writes = active
    /\ LET nexts == UNION {Successors(g_mode, n, ApplyUpdate(g_state, writes[n])) : n \in active}
           deferred == {n \in nexts : Deferred(g_mode, n)}
           regular == nexts \ ({END} \cup deferred)
           held == waiting \cup deferred
           tasks == IF regular # {} THEN regular ELSE held
       IN  IF InvalidUpdate(writes)
             THEN /\ gstatus' = "InvalidUpdateError"
                  /\ active' = {}
                  /\ UNCHANGED <<g_state, waiting, supersteps, epoch, prev_step>>
             ELSE /\ g_state' = ApplyWrites(g_state, writes, 1)
                  /\ supersteps' = supersteps + 1
                  /\ prev_step' = active
                  /\ epoch' = [epoch EXCEPT
                                 !.branch = IF "cortex" \in active THEN nexts ELSE @,
                                 !.scheduled = @ \cup tasks,
                                 !.replanned =
                                     \/ @
                                     \/ /\ "convergence" \in active
                                        /\ tasks = {"planner"}
                                        /\ ~get_current_subgoal(g_state.subgoal_plan)]
                  /\ IF tasks = {}
                       THEN gstatus' = "END" /\ active' = {} /\ waiting' = {}
                     ELSE IF OutOfSteps(supersteps + 1)
                       THEN gstatus' = "GraphRecursionError" /\ active' = {} /\ waiting' = {}
                     ELSE /\ gstatus' = "running"
                          /\ active' = tasks
                          /\ waiting' = IF regular # {} THEN held ELSE {}
    /\ writes' = <<>>
    /\ UNCHANGED <<g_mode, g_exc>>
    /\ UNCHANGED graph_rest

GraphNext ==
    \/ PlannerNode
    \/ OrchestratorNode
    \/ ContextorNode
    \/ CortexNode
    \/ ExecutorNode
    \/ ExecutorToolsNode
    \/ SummarizerNode
    \/ ConvergenceNode
    \/ MonolithicContextorNode
    \/ MonolithicNode
    \/ MonolithicContextorRaises
    \/ MonolithicNodeRaises
    \/ ToolsNode
    \/ EndStep

\* ------------------------------------------------ focus_element_if_needed
\* The arguments one call is tried on, and the element of the device that
\* carries the resource id: whether it is in the hierarchy, focused, its text.
FocusResourceIds == {PyNone, PyStr(""), PyStr("id/input")}
FocusCoordinates == {PyNone, [kind |-> "ElementBounds", v |-> <<"bounds">>]}
FocusTexts == {PyNone, PyStr("hello")}
NoElement == [present |-> FALSE, focused |-> FALSE, text |-> PyNone]
IdElements ==
    {NoElement} \cup
    {[present |-> TRUE, focused |-> fo, text |-> t] :
        fo \in BOOLEAN, t \in {PyNone, PyStr("hello"), PyStr("other")}}
TextElements == {"missing", "without bounds", "with bounds"}

\* Line 99 of ui_hierarchy.py: the parameters find_element_by_resource_id has;
\* lines 128-130, 143-147 and 151-155 of utils.py: the keywords it is called with.
FindElementParameters == {"ui_hierarchy", "resource_id"}
FindElementKeywords == {"ui_hierarchy", "resource_id", "is_rich_hierarchy"}

\* A call by keyword binds when every keyword names a parameter; otherwise the
\* call raises TypeError before the function body runs.
CallBinds(keywords, parameters) == keywords \subseteq parameters

\* get_element_text, then `text.lower() not in element_text.lower()`.
TextMismatch(elt, text) == ~Truthy(elt.text) \/ elt.text # text

FocusInit ==
    /\ f_args \in [id : FocusResourceIds, coordinates : FocusCoordinates, text : FocusTexts]
    /\ f_rid = f_args.id
    /\ f_elt \in IdElements
    /\ f_text_elt \in TextElements
    /\ f_pc = "start"
    /\ f_reads = 0
    /\ f_taps = <<>>
    /\ f_return = "none"
    /\ f_exc = "none"

\* focus_element_if_needed is not called.
FocusIdle ==
    /\ f_args = <<>>
    /\ f_rid = PyNone
    /\ f_elt = NoElement
    /\ f_text_elt = "missing"
    /\ f_pc = "idle"
    /\ f_reads = 0
    /\ f_taps = <<>>
    /\ f_return = "none"
    /\ f_exc = "none"

\* Line 125: the hierarchy is read.
FocusReadHierarchy ==
    /\ f_pc = "start"
    /\ f_reads' = f_reads + 1
    /\ f_pc' = "sanity"
    /\ UNCHANGED <<f_args, f_rid, f_elt, f_text_elt, f_taps, f_return, f_exc>>
    /\ UNCHANGED focus_rest

\* Lines 127-139: with an id and a text, the id is dropped when the element it
\* names does not carry the text.
FocusSanityCheck ==
    /\ f_pc = "sanity"
    /\ IF Truthy(f_rid) /\ Truthy(f_args.text)
         THEN IF ~CallBinds(FindElementKeywords, FindElementParameters)
                THEN f_pc' = "raised" /\ f_exc' = "TypeError" /\ UNCHANGED f_rid
              ELSE /\ f_rid' = IF f_elt.present /\ TextMismatch(f_elt, f_args.text)
                                 THEN PyNone ELSE f_rid
                   /\ f_pc' = "by_id"
                   /\ UNCHANGED f_exc
       ELSE f_pc' = "by_id" /\ UNCHANGED <<f_rid, f_exc>>
    /\ UNCHANGED <<f_args, f_elt, f_text_elt, f_reads, f_taps, f_return>>
    /\ UNCHANGED focus_rest

\* Lines 141-162: the element is looked up by id, tapped when it is found and
\* not focused, and looked up again in a hierarchy read after the tap (where
\* it may be focused, unfocused or gone).
FocusByResourceId ==
    /\ f_pc = "by_id"
    /\ IF ~Truthy(f_rid)
         THEN /\ f_pc' = "by_coordinates"
              /\ UNCHANGED <<f_elt, f_reads, f_taps, f_return, f_exc>>
       ELSE IF ~CallBinds(FindElementKeywords, FindElementParameters)
         THEN /\ f_pc' = "raised"
              /\ f_exc' = "TypeError"
              /\ UNCHANGED <<f_elt, f_reads, f_taps, f_return>>
       ELSE /\ IF f_elt.present /\ ~f_elt.focused
                 THEN /\ f_taps' = Append(f_taps, <<"id", f_rid>>)
                      /\ f_reads' = f_reads + 1
                      /\ f_elt' \in {e \in IdElements : e.present => e.text = f_elt.text}
               ELSE UNCHANGED <<f_taps, f_reads, f_elt>>
            /\ IF f_elt'.present /\ f_elt'.focused
                 THEN f_pc' = "returned" /\ f_return' = "True"
               ELSE f_pc' = "by_coordinates" /\ UNCHANGED f_return
            /\ UNCHANGED f_exc
    /\ UNCHANGED <<f_args, f_rid, f_text_elt>>
    /\ UNCHANGED focus_rest

\* Lines 164-176: with coordinates, their bottom-right point is tapped.
FocusByCoordinates ==
    /\ f_pc = "by_coordinates"
    /\ IF Truthy(f_args.coordinates)
         THEN /\ f_taps' = Append(f_taps, <<"coordinates", f_args.coordinates>>)
              /\ f_pc' = "returned"
              /\ f_return' = "True"
       ELSE f_pc' = "by_text" /\ UNCHANGED <<f_taps, f_return>>
    /\ UNCHANGED <<f_args, f_rid, f_elt, f_text_elt, f_reads, f_exc>>
    /\ UNCHANGED focus_rest

\* Lines 178-195: with a text, the element carrying it is tapped when it has
\* bounds; otherwise the function gives up.
FocusByText ==
    /\ f_pc = "by_text"
    /\ IF Truthy(f_args.text) /\ f_text_elt = "with bounds"
         THEN /\ f_taps' = Append(f_taps, <<"coordinates", f_args.text>>)
              /\ f_return' = "True"
       ELSE f_return' = "False" /\ UNCHANGED f_taps
    /\ f_pc' = "returned"
    /\ UNCHANGED <<f_args, f_rid, f_elt, f_text_elt, f_reads, f_exc>>
    /\ UNCHANGED focus_rest

FocusNext ==
    \/ FocusReadHierarchy
    \/ FocusSanityCheck
    \/ FocusByResourceId
    \/ FocusByCoordinates
    \/ FocusByText

\* ------------------------------------------------------------ tap tool
\* The targets one call is tried on, and what the controller does with each
\* locator: the tap succeeds, returns an error, or raises.
TapTargets ==
    [coordinates : {PyNone, [kind |-> "ElementBounds", v |-> <<"bounds">>]},
     resource_id : {PyNone, PyStr(""), PyStr("id/button")},
     text : {PyNone, PyStr(""), PyStr("OK")}]
Locators == {"coordinates", "resource_id", "text"}
ControllerOutcomes == {"success", "error", "raise"}

\* Lines 35-37 and 57, 80, 101: output is None after a successful tap and an
\* error dictionary otherwise (the default one before any attempt).
OutputAfter(outcome) ==
    CASE outcome = "success" -> "None"
      [] outcome = "error" -> "result.error"
      [] OTHER -> "str(e)"

TapInit ==
    /\ p_target \in TapTargets
    /\ p_outcomes \in [Locators -> ControllerOutcomes]
    /\ p_pc = "coordinates"
    /\ p_output = "default error"
    /\ p_attempts = <<>>
    /\ p_status = "none"

\* The tap tool is not called.
TapIdle ==
    /\ p_target = <<>>
    /\ p_outcomes = <<>>
    /\ p_pc = "idle"
    /\ p_output = "default error"
    /\ p_attempts = <<>>
    /\ p_status = "none"

\* One locator's block: it is tried when the condition of its `if` holds.
TryLocator(locator, condition, next_pc) ==
    /\ IF condition
         THEN /\ p_attempts' = Append(p_attempts, locator)
              /\ p_output' = OutputAfter(p_outcomes[locator])
       ELSE UNCHANGED <<p_attempts, p_output>>
    /\ p_pc' = next_pc
    /\ UNCHANGED <<p_target, p_outcomes, p_status>>
    /\ UNCHANGED tap_rest

\* Lines 42-59: `if target.coordinates`.
TapByCoordinates ==
    /\ p_pc = "coordinates"
    /\ TryLocator("coordinates", Truthy(p_target.coordinates), "resource_id")

\* Lines 61-83: `if output is not None and target.resource_id`.
TapByResourceId ==
    /\ p_pc = "resource_id"
    /\ TryLocator("resource_id", p_output # "None" /\ Truthy(p_target.resource_id), "text")

\* Lines 85-104: `if output is not None and target.text`.
TapByText ==
    /\ p_pc = "text"
    /\ TryLocator("text", p_output # "None" /\ Truthy(p_target.text), "finish")

\* Lines 106-119: the ToolMessage is built from has_failed.
TapFinish ==
    /\ p_pc = "finish"
    /\ p_status' = IF p_output # "None" THEN "error" ELSE "success"
    /\ p_pc' = "returned"
    /\ UNCHANGED <<p_target, p_outcomes, p_output, p_attempts>>
    /\ UNCHANGED tap_rest

TapNext ==
    \/ TapByCoordinates
    \/ TapByResourceId
    \/ TapByText
    \/ TapFinish

\* ------------------------------------------------ _handle_initial_app_launch
\* A package name is its text and whether white space surrounds it.
Package(name, padded) == [kind |-> "str", v |-> <<[name |-> name, padded |-> padded]>>]

\* str.strip()
Strip(s) == IF s.v = <<>> THEN s ELSE Package(s.v[1].name, FALSE)

LockedPackages == {PyNone, Package("com.app", FALSE), Package("com.app", TRUE)}

\* get_current_foreground_package: a package name, or None when it cannot tell
\* (it catches its own exceptions).
ForegroundOutcomes ==
    {PyNone, Package("com.app", FALSE), Package("com.app", TRUE), Package("com.other", FALSE)}

\* launch_app: None on success, an error dictionary, or an exception of the
\* adb client.
LaunchOutcomes == {"None", "error", "raise"}

\* Line 64.
max_retries == 3

\* A comparison that forgets to strip.
PackagesMatch_Exact(current, locked) == Truthy(current) /\ current = locked

\* Lines 53 and 91: `current_package and current_package.strip() == locked_app_package.strip()`.
PackagesMatch(current, locked) == Truthy(current) /\ Strip(current) = Strip(locked)

\* The status dictionary returned.
LaunchStatus(package, success, error) ==
    [locked_app_package |-> package, locked_app_initial_launch_success |-> success,
     locked_app_initial_launch_error |-> error]

NoStatus == LaunchStatus(PyNone, "none", "none")

LaunchInit ==
    /\ l_locked \in LockedPackages
    /\ l_pc = "start"
    /\ l_attempt = 0
    /\ l_current = PyNone
    /\ l_log = <<>>
    /\ l_result = NoStatus

\* _handle_initial_app_launch is not called.
LaunchIdle ==
    /\ l_locked = PyNone
    /\ l_pc = "idle"
    /\ l_attempt = 0
    /\ l_current = PyNone
    /\ l_log = <<>>
    /\ l_result = NoStatus

LaunchReturn(success, error) ==
    /\ l_pc' = "returned"
    /\ l_result' = LaunchStatus(l_locked, success, error)

\* Lines 39-45: no locked package.
LaunchNoPackage ==
    /\ l_pc = "start"
    /\ l_locked = PyNone
    /\ LaunchReturn("None", "None")
    /\ UNCHANGED <<l_locked, l_attempt, l_current, l_log>>
    /\ UNCHANGED launch_rest

\* Lines 49-64: the foreground package is read; the loop starts when it is not
\* the locked package.
LaunchCheckForeground ==
    /\ l_pc = "start"
    /\ l_locked # PyNone
    /\ \E fg \in ForegroundOutcomes :
          /\ l_current' = fg
          /\ l_log' = Append(l_log, <<"check", fg>>)
          /\ IF PackagesMatch(fg, l_locked)
               THEN LaunchReturn("True", "None") /\ UNCHANGED l_attempt
             ELSE /\ l_pc' = "launch"
                  /\ l_attempt' = 1
                  /\ UNCHANGED l_result
    /\ UNCHANGED l_locked
    /\ UNCHANGED launch_rest

\* Lines 65-81: one launch; a failed command ends the call on the last attempt
\* and otherwise goes to the next attempt; an exception is caught at line 115.
LaunchAttempt ==
    /\ l_pc = "launch"
    /\ \E r \in LaunchOutcomes :
          /\ l_log' = Append(l_log, <<"launch", r>>)
          /\ CASE r = "raise" ->
                    LaunchReturn("False", "Exception during initial app launch")
                    /\ UNCHANGED l_attempt
               [] r = "error" ->
                    IF l_attempt = max_retries
                      THEN LaunchReturn("False", "Failed to execute launch command")
                           /\ UNCHANGED l_attempt
                    ELSE l_attempt' = l_attempt + 1 /\ UNCHANGED <<l_pc, l_result>>
               [] OTHER -> l_pc' = "verify" /\ UNCHANGED <<l_attempt, l_result>>
    /\ UNCHANGED <<l_locked, l_current>>
    /\ UNCHANGED launch_rest

\* Lines 83-113: after the sleep the foreground package is read again; the
\* loop ends when it is the locked package or the attempts are used up.
LaunchVerify ==
    /\ l_pc = "verify"
    /\ \E fg \in ForegroundOutcomes :
          /\ l_current' = fg
          /\ l_log' = Append(l_log, <<"verify", fg>>)
          /\ IF PackagesMatch(fg, l_locked)
               THEN LaunchReturn("True", "None") /\ UNCHANGED l_attempt
             ELSE IF l_attempt < max_retries
               THEN l_pc' = "launch" /\ l_attempt' = l_attempt + 1 /\ UNCHANGED l_result
             ELSE LaunchReturn("False", "Failed to launch after max_retries attempts")
                  /\ UNCHANGED l_attempt
    /\ UNCHANGED l_locked
    /\ UNCHANGED launch_rest

LaunchNext ==
    \/ LaunchNoPackage
    \/ LaunchCheckForeground
    \/ LaunchAttempt
    \/ LaunchVerify

\* ------------------------------------------------ WandbBaseManager._safe_log
\* The buffer's capacity (_max_failed_logs, 100 in the program) and the age
\* after which a failed log is given up (300 seconds in the program), scaled
\* down; the number of _safe_log calls and the clock's range.
MaxFailedLogs == 2
MaxLogAge == 2
MaxLogs == 4
MaxTime == 3

SendOutcomes == {"ok", "fail"}
Steps == {"None", "7"}

\* A cap that keeps the oldest entries.
Capped_KeepsOldest(buffer) ==
    IF Len(buffer) > MaxFailedLogs THEN SubSeq(buffer, 1, MaxFailedLogs) ELSE buffer

\* Lines 68-69: `self._failed_logs[-self._max_failed_logs:]` when the buffer
\* is over its capacity.
Capped(buffer) ==
    IF Len(buffer) > MaxFailedLogs
      THEN SubSeq(buffer, Len(buffer) - MaxFailedLogs + 1, Len(buffer))
    ELSE buffer

\* Line 83: `time.time() - timestamp > 300`.
TooOld(now, timestamp) == now - timestamp > MaxLogAge

\* Lines 80-93: the entries that stay in the buffer after a retry in which
\* entry i is re-sent with outcome outcomes[i]: those young enough whose
\* re-send failed, in order.
RECURSIVE Remaining(_, _, _, _)
Remaining(buffer, outcomes, now, i) ==
    IF i > Len(buffer) THEN <<>>
    ELSE (IF ~TooOld(now, buffer[i].timestamp) /\ outcomes[i] = "fail"
            THEN <<buffer[i]>> ELSE <<>>)
         \o Remaining(buffer, outcomes, now, i + 1)

\* The run.log calls of that retry, in order.
RECURSIVE Resent(_, _, _, _)
Resent(buffer, outcomes, now, i) ==
    IF i > Len(buffer) THEN <<>>
    ELSE (IF ~TooOld(now, buffer[i].timestamp)
            THEN <<[data |-> buffer[i].data, step |-> buffer[i].step,
                    outcome |-> outcomes[i]]>>
          ELSE <<>>)
         \o Resent(buffer, outcomes, now, i + 1)

NoLogCall == [data |-> 0, at |-> 0, primary |-> "none", resent |-> <<>>, before |-> <<>>]

WandbInit ==
    /\ b_enabled \in BOOLEAN
    /\ b_run \in BOOLEAN
    /\ b_now = 0
    /\ b_failed_logs = <<>>
    /\ b_calls = 0
    /\ b_last = NoLogCall

\* No manager exists.
WandbIdle ==
    /\ b_enabled = FALSE
    /\ b_run = FALSE
    /\ b_now = 0
    /\ b_failed_logs = <<>>
    /\ b_calls = 0
    /\ b_last = NoLogCall

\* _safe_log(data, step), with the _retry_failed_logs it calls after a
\* successful send. The data of the n-th call is n.
SafeLog ==
    /\ b_calls < MaxLogs
    /\ b_calls' = b_calls + 1
    /\ IF ~b_enabled \/ ~b_run
         THEN /\ b_last' = [NoLogCall EXCEPT !.data = b_calls + 1, !.at = b_now,
                                             !.primary = "skipped",
                                             !.before = b_failed_logs]
              /\ UNCHANGED b_failed_logs
       ELSE \E step \in Steps, primary \in SendOutcomes,
               outcomes \in [1..Len(b_failed_logs) -> SendOutcomes] :
              IF primary = "fail"
                THEN /\ b_failed_logs' =
                          Capped(Append(b_failed_logs,
                                        [data |-> b_calls + 1, timestamp |-> b_now,
                                         step |-> step]))
                     /\ b_last' = [data |-> b_calls + 1, at |-> b_now, primary |-> "fail",
                                   resent |-> <<>>, before |-> b_failed_logs]
              ELSE /\ b_failed_logs' = Remaining(b_failed_logs, outcomes, b_now, 1)
                   /\ b_last' = [data |-> b_calls + 1, at |-> b_now, primary |-> "ok",
                                 resent |-> Resent(b_failed_logs, outcomes, b_now, 1),
                                 before |-> b_failed_logs]
    /\ UNCHANGED <<b_enabled, b_run, b_now>>
    /\ UNCHANGED wandb_rest

\* time.time() advances between calls.
ClockTick ==
    /\ b_now < MaxTime
    /\ b_now' = b_now + 1
    /\ UNCHANGED <<b_enabled, b_run, b_failed_logs, b_calls, b_last>>
    /\ UNCHANGED wandb_rest

WandbNext ==
    \/ SafeLog
    \/ ClockTick

\* ------------------------------------------------------------ specifications
\* One specification per component; the other components stay idle.
CoreIdle ==
    DispatchIdle /\ FallbackIdle /\ TimeoutIdle /\ MergeIdle /\ RoutingIdle /\ GraphIdle
HelpersIdle == FocusIdle /\ TapIdle /\ LaunchIdle /\ WandbIdle

InitDispatch == DispatchInit /\ FallbackIdle /\ TimeoutIdle /\ MergeIdle /\ RoutingIdle /\ GraphIdle /\ HelpersIdle
SpecDispatch == InitDispatch /\ [][DispatchNext]_vars

InitFallback == FallbackInit /\ DispatchIdle /\ TimeoutIdle /\ MergeIdle /\ RoutingIdle /\ GraphIdle /\ HelpersIdle
SpecFallback == InitFallback /\ [][FallbackNext]_vars

InitTimeout == TimeoutInit /\ DispatchIdle /\ FallbackIdle /\ MergeIdle /\ RoutingIdle /\ GraphIdle /\ HelpersIdle
SpecTimeout == InitTimeout /\ [][TimeoutNext]_vars

InitMerge == MergeInit /\ DispatchIdle /\ FallbackIdle /\ TimeoutIdle /\ RoutingIdle /\ GraphIdle /\ HelpersIdle
SpecMerge == InitMerge /\ [][MergeNext]_vars

InitRouting ==
    RoutingInit /\ DispatchIdle /\ FallbackIdle /\ TimeoutIdle /\ MergeIdle /\ GraphIdle
    /\ HelpersIdle
SpecRouting == InitRouting /\ [][RoutingNext]_vars

InitGraph ==
    GraphInit /\ DispatchIdle /\ FallbackIdle /\ TimeoutIdle /\ MergeIdle /\ RoutingIdle /\ HelpersIdle
SpecGraph == InitGraph /\ [][GraphNext]_vars

InitFocus == FocusInit /\ CoreIdle /\ TapIdle /\ LaunchIdle /\ WandbIdle
SpecFocus == InitFocus /\ [][FocusNext]_vars

InitTap == TapInit /\ CoreIdle /\ FocusIdle /\ LaunchIdle /\ WandbIdle
SpecTap == InitTap /\ [][TapNext]_vars

InitLaunch == LaunchInit /\ CoreIdle /\ FocusIdle /\ TapIdle /\ WandbIdle
SpecLaunch == InitLaunch /\ [][LaunchNext]_vars

InitWandb == WandbInit /\ CoreIdle /\ FocusIdle /\ TapIdle /\ LaunchIdle
SpecWandb == InitWandb /\ [][WandbNext]_vars

\* ============================================================ claims: tool dispatch
\* How a raw tool outcome reads to an observer of the batch: "success" or "error"
\* (a ToolMessage, or a Command whose update ends in one, with that status),
\* "raised" (the tool raised), "unrecognized" (anything else), "none" (not run).
OutcomeStatus(out) ==
    CASE out.type = "ToolMessage" -> out.status
      [] out.type = "Command" ->
            IF /\ out.update \in {"list", "message"}
               /\ Len(out.msgs) > 0
               /\ out.msgs[Len(out.msgs)].type = "ToolMessage"
            THEN out.msgs[Len(out.msgs)].status
            ELSE "unrecognized"
      [] out.type = "Exception" -> "raised"
      [] out.type = "NoResult" -> "none"
      [] OTHER -> "unrecognized"

\* The error result the engine synthesizes for the call at position i.
Synthesized(i, text) ==
    Command("list", <<ToolMessage(ToolNames[i], CallIds[i], text, "error")>>)

AbortedResult(i) == Synthesized(i, <<"Aborted: a previous tool call failed!">>)

\* Call k is the first call of the batch whose outcome is a failure: it returned
\* an error result and every call before it returned a success.
FirstFailure(k) ==
    /\ k \in 1..N
    /\ OutcomeStatus(results[k]) = "error"
    /\ \A j \in 1..(k - 1) : OutcomeStatus(results[j]) = "success"

\* C1: sequential dispatch of a batch in which call k is the first to fail returns,
\* and returns the real outcomes of calls 1..k (the failed call's own result
\* included) followed by an "Aborted: a previous tool call failed!" error for each
\* of the calls k+1..N, in request order.
C1_SequentialAbort ==
    sequential_execution =>
        \A k \in 1..N :
            FirstFailure(k) =>
                /\ dpc # "raised"
                /\ \A j \in 1..Len(outputs) :
                      outputs[j] = IF j <= k THEN results[j] ELSE AbortedResult(j)
                /\ dpc = "done" => Len(outputs) = N

\* Scenario A: three calls, the second fails, the third is aborted.
C1_Witness ==
    /\ sequential_execution
    /\ dpc = "done"
    /\ N = 3
    /\ FirstFailure(2)
    /\ outputs = <<results[1], results[2], AbortedResult(3)>>
    /\ OutcomeStatus(outputs[2]) = "error"

\* C2: in sequential dispatch the tools are started in request order, one at a
\* time (a call is started only once every earlier started call has returned), a
\* call is started only if every call before it succeeded, and a call that was not
\* started has no outcome of its own: its result is the synthesized abort.
C2_SequentialOrder ==
    sequential_execution =>
        /\ started = [i \in 1..Len(started) |-> i]
        /\ \A i \in 1..Len(started) :
              \A j \in 1..(i - 1) : OutcomeStatus(results[j]) = "success"
        /\ \A i \in 1..N :
              i > Len(started) => results[i] = NoResult
        /\ \A i \in 1..Len(outputs) :
              i > Len(started) => outputs[i] = AbortedResult(i)

\* The first call fails: the two calls after it are never started.
C2_Witness ==
    /\ sequential_execution
    /\ dpc = "done"
    /\ N = 3
    /\ started = <<1>>
    /\ Len(outputs) = 3
    /\ results[2] = NoResult
    /\ results[3] = NoResult

\* C3: parallel dispatch runs every call of the batch whatever fails, and result i
\* is the result of call i: the call's own outcome when that is a success or an
\* error result, and otherwise an error result carrying call i's id and name.
C3_ParallelNoAbort ==
    ~sequential_execution =>
        /\ dpc \in {"par_loop", "done", "raised"} =>
              \A i \in 1..N : results[i] # NoResult /\ \E p \in 1..Len(started) : started[p] = i
        /\ dpc = "done" => Len(outputs) = N
        /\ \A i \in 1..Len(outputs) :
              /\ OutcomeStatus(results[i]) \in {"success", "error"} => outputs[i] = results[i]
              /\ outputs[i].type = "ToolMessage" =>
                    outputs[i].tool_call_id = tool_calls[i].id /\ outputs[i].name = tool_calls[i].name
              /\ outputs[i].type = "Command" =>
                    /\ outputs[i].msgs[Len(outputs[i].msgs)].tool_call_id = tool_calls[i].id
                    /\ outputs[i].msgs[Len(outputs[i].msgs)].name = tool_calls[i].name

\* Async parallel batch of three: the first and the last call fail, the second
\* succeeds, and all three results are the calls' own.
C3_Witness ==
    /\ ~sequential_execution
    /\ is_async
    /\ dpc = "done"
    /\ N = 3
    /\ OutcomeStatus(results[1]) = "error"
    /\ OutcomeStatus(results[2]) = "success"
    /\ OutcomeStatus(results[3]) = "error"
    /\ outputs = <<results[1], results[2], results[3]>>

\* The text of the exception the tool of call i raised.
RaisedText(i) == results[i].content

CarriedMessage(out) ==
    IF out.type = "ToolMessage" THEN out ELSE out.msgs[Len(out.msgs)]

\* C5: in both modes a dispatch that returns gives exactly one result per call, in
\* request order (result i carries the id and the name of call i), and every
\* result the engine synthesized instead of the tool's own outcome is a single
\* error message with the id and the name of the call at its position.
C5_OneResultPerCall ==
    /\ Len(outputs) <= N
    /\ dpc = "done" => Len(outputs) = N
    /\ \A i \in 1..Len(outputs) :
          /\ CarriedMessage(outputs[i]).tool_call_id = tool_calls[i].id
          /\ CarriedMessage(outputs[i]).name = tool_calls[i].name
          /\ outputs[i] # results[i] =>
                /\ outputs[i].type = "Command"
                /\ outputs[i].update = "list"
                /\ Len(outputs[i].msgs) = 1
                /\ outputs[i].msgs[1].type = "ToolMessage"
                /\ outputs[i].msgs[1].status = "error"
                /\ outputs[i].msgs[1].tool_call_id = CallIds[i]
                /\ outputs[i].msgs[1].name = ToolNames[i]

\* A sequential batch of three: a real result, a synthesized "unexpected output"
\* error and a synthesized abort.
C5_Witness ==
    /\ sequential_execution
    /\ dpc = "done"
    /\ N = 3
    /\ outputs[1] = results[1]
    /\ outputs[2] = Synthesized(2, <<"Unexpected tool output type: ", "str">>)
    /\ outputs[3] = AbortedResult(3)

\* C6: a tool output that is neither a recognized success nor a recognized error
\* (a Command without a tool message, a Command whose update is not a dict, any
\* other value) never makes the dispatch raise: the call gets a synthesized error
\* result of its own.
C6_UnrecognizedNeverRaises ==
    \A i \in 1..N :
        OutcomeStatus(results[i]) = "unrecognized" =>
            /\ ~(dpc = "raised" /\ idx = i)
            /\ i <= Len(outputs) =>
                  /\ outputs[i] # results[i]
                  /\ CarriedMessage(outputs[i]).status = "error"
                  /\ CarriedMessage(outputs[i]).tool_call_id = tool_calls[i].id

\* C7: in sequential dispatch a tool call that raises is recorded as an error
\* result for that call and nothing is raised out of the dispatch, which returns
\* one result per call.
C7_SequentialExceptionRecorded ==
    sequential_execution =>
        \A i \in 1..N :
            results[i].type = "Exception" =>
                /\ dpc # "raised"
                /\ dpc = "done" =>
                      /\ Len(outputs) = N
                      /\ CarriedMessage(outputs[i]).status = "error"

\* The results a returned dispatch may hold at position i, read off the dispatch
\* mode and the tools' raw outcomes alone.
ValueErrorTexts ==
    { <<"ValueError: No messages found in command update">>,
      <<"ValueError: Last message in command update is not a tool message">>,
      <<"ValueError: Missing messages key in command update">>,
      <<"ValueError: Unexpected message type in command update">>,
      <<"ValueError: Command update is not a dict">> }

ExpectedResults(i) ==
    LET st == OutcomeStatus(results[i])
    IN  CASE st \in {"success", "error"} -> {results[i]}
          [] st = "none" -> {AbortedResult(i)}
          [] st = "raised" ->
                {Synthesized(i, (IF is_async
                                 THEN <<"Exception during parallel execution: ">>
                                 ELSE <<"Exception: ">>) \o RaisedText(i))}
          [] results[i].type = "Command" ->
                {Synthesized(i, <<"Exception: ">> \o t) : t \in ValueErrorTexts}
          [] OTHER -> {Synthesized(i, <<"Unexpected tool output type: ", results[i].type>>)}

MainFailed ==
    \/ main_result.kind = "raise"
    \/ main_result.kind = "none" /\ none_should_fallback

\* C9: with_fallback calls fallback_call if and only if main_call raised, or
\* returned None while none_should_fallback is true; it then returns the
\* fallback's result, and otherwise main's result (None included when
\* none_should_fallback is false).
C9_FallbackIffMainFailed ==
    /\ fallback_calls > 0 => main_calls > 0 /\ MainFailed
    /\ wpc \in {"returned", "raised"} =>
          /\ (fallback_calls > 0) <=> MainFailed
          /\ w_return = IF MainFailed THEN fallback_result ELSE main_result
    /\ wpc = "returned" => w_return.kind \in {"value", "none"}

\* Scenario E: main raises TimeoutError, the fallback returns "ok".
C9_Witness ==
    /\ wpc = "returned"
    /\ main_result = OutRaise("TimeoutError")
    /\ fallback_result = OutValue("ok")
    /\ fallback_calls = 1
    /\ w_return = OutValue("ok")

\* C10: within one with_fallback invocation main_call is invoked exactly once and
\* fallback_call at most once, whatever main and the fallback do; a failure of the
\* fallback propagates to the caller without a further attempt.
C10_SingleFallbackAttempt ==
    /\ main_calls <= 1
    /\ fallback_calls <= 1
    /\ wpc \in {"returned", "raised"} => main_calls = 1
    /\ wpc = "raised" => fallback_calls = 1

\* ============================================================ claims: timeout notice
\* C11: invoke_llm_with_timeout_message never cancels or restarts the wrapped
\* call; the "Waiting for LLM call response..." notice is written at most once
\* per invocation, and only when asyncio.wait resumed with the timer finished
\* and the call not; whatever the interleaving, the wrapper returns exactly
\* the call's result or raises exactly the call's exception.
C11_TimeoutNoticeTransparent ==
    /\ llm_task.state # "cancelled"
    /\ llm_creations <= 1
    /\ notices <= 1
    /\ notices = 1 => done = {"waiter_task"}
    /\ tpc \in {"returned", "raised"} =>
          /\ llm_task.state = "finished"
          /\ t_return = llm_task.outcome
          /\ (tpc = "raised") = (llm_task.outcome.kind = "raise")
          /\ done = {"waiter_task"} => notices = 1

\* The timer fired first, the notice was written, and the call's exception
\* then came out of the wrapper.
C11_Witness ==
    /\ tpc = "raised"
    /\ notices = 1
    /\ t_return = OutRaise("RateLimitError")

\* ============================================================ claims: State merge
\* The updates of the step that were merged so far.
Applied == 1..(m_i - 1)

\* Two updates of the step carry different values for one take_last field.
ConflictingReplace ==
    \E i, j \in 1..Len(m_updates) : \E f \in DOMAIN m_updates[i] \cap DOMAIN m_updates[j] :
        /\ i < j
        /\ Reducer(f) = "take_last"
        /\ m_updates[i][f] # m_updates[j][f]

\* C18: a step in which two updates carry different values for the same
\* replace-rule field (structured_decisions, latest_ui_hierarchy, ...) fails
\* with a merge conflict; it never commits with one of the two values kept.
C18_ConflictingReplaceFails ==
    ConflictingReplace => m_pc # "committed"

\* C19: merging an update leaves every field the update does not carry
\* identical and runs no reducer for it, so the empty update (what
\* convergence_node returns) leaves the State field-for-field identical; and
\* an empty list merged into agents_thoughts leaves agents_thoughts unchanged.
C19_EmptyUpdateIsIdentity ==
    /\ \A f \in Fields :
          (\A i \in Applied : f \notin DOMAIN m_updates[i]) => m_merged[f] = m_state[f]
    /\ \A e \in m_reducer_log : e[2] \in DOMAIN m_updates[e[1]]
    /\ (\A i \in Applied : DOMAIN m_updates[i] = {}) =>
          /\ m_merged = m_state
          /\ m_reducer_log = {}
    /\ (\A i \in Applied : "agents_thoughts" \in DOMAIN m_updates[i] =>
                              m_updates[i]["agents_thoughts"] = PyList(<<>>))
          => m_merged.agents_thoughts = m_state.agents_thoughts

\* A step of an empty update and an empty list of thoughts committed on a
\* State that has thoughts, a decision and a UI hierarchy.
C19_Witness ==
    /\ m_pc = "committed"
    /\ Len(m_updates) = 2
    /\ DOMAIN m_updates[1] = {}
    /\ DOMAIN m_updates[2] = {"agents_thoughts"}
    /\ m_updates[2]["agents_thoughts"] = PyList(<<>>)
    /\ m_state.agents_thoughts = <<"t0">>
    /\ m_state.structured_decisions = PyStr("tap")
    /\ m_state.latest_ui_hierarchy = PyList(<<"node">>)
    /\ m_merged = m_state

\* ============================================================ claims: routing
\* What a claim reads off the State a routing function was evaluated on.
NamesSubgoals == r_state.complete_subgoals_by_ids # <<>>
DecisionPresent ==
    /\ r_state.structured_decisions.kind = "str"
    /\ r_state.structured_decisions.v # <<>>
Routed(node) == r_mode = "multi" /\ r_node = node
Labels == Range(r_route)
HasStatus(status) ==
    \E i \in 1..Len(r_state.subgoal_plan) : r_state.subgoal_plan[i] = status
LastIsToolRequest ==
    /\ r_state.executor_messages # <<>>
    /\ LET last == r_state.executor_messages[Len(r_state.executor_messages)]
       IN  last.type = "AIMessage" /\ last.tool_calls # <<>>

\* C12: post_cortex_gate returns a non-empty successor set for every State:
\* it contains review_subgoals whenever the decision names subgoals to
\* complete, and execute_decisions whenever a (non-empty) structured decision
\* is present; it is exactly the orchestrator when neither holds and exactly
\* the executor when there is a decision and no subgoal to complete.
C12_PostCortexRouting ==
    Routed("cortex") =>
        /\ Labels # {}
        /\ r_next # {}
        /\ NamesSubgoals => "review_subgoals" \in Labels /\ "orchestrator" \in r_next
        /\ DecisionPresent => "execute_decisions" \in Labels /\ "executor" \in r_next
        /\ (~NamesSubgoals /\ ~DecisionPresent) =>
              r_route = <<"review_subgoals">> /\ r_next = {"orchestrator"}
        /\ (DecisionPresent /\ ~NamesSubgoals) =>
              r_route = <<"execute_decisions">> /\ r_next = {"executor"}

\* The reasoning stage produced nothing actionable (an empty decision string):
\* the orchestrator alone is scheduled.
C12_Witness ==
    /\ Routed("cortex")
    /\ r_state.structured_decisions = PyStr("")
    /\ ~NamesSubgoals
    /\ r_next = {"orchestrator"}

\* C13: convergence_gate returns replan whenever some subgoal is FAILURE, even
\* if all the others are SUCCESS; otherwise end when all subgoals are SUCCESS
\* or none is RUNNING or PENDING; otherwise continue.
C13_ConvergenceRouting ==
    Routed("convergence") =>
        /\ Len(r_route) = 1
        /\ HasStatus("FAILURE") => r_route[1] = "replan" /\ r_next = {"planner"}
        /\ (~HasStatus("FAILURE") /\ ~HasStatus("RUNNING") /\ ~HasStatus("PENDING")) =>
              r_route[1] = "end" /\ r_next = {END}
        /\ (~HasStatus("FAILURE") /\ (HasStatus("RUNNING") \/ HasStatus("PENDING"))) =>
              r_route[1] = "continue" /\ r_next = {"contextor"}

\* One subgoal succeeded, the other failed: replan.
C13_Witness ==
    /\ Routed("convergence")
    /\ r_state.subgoal_plan = <<"SUCCESS", "FAILURE">>
    /\ r_route = <<"replan">>

\* C15: in the monolithic graph, when the agent declared the task complete the
\* run terminates; otherwise, when the last executor message is an AI message
\* with at least one tool call, the tool node is next; otherwise (no messages,
\* or no tool calls) the graph loops back to the contextor.
C15_MonolithicRouting ==
    (r_mode = "mono" /\ r_node = "monolithic") =>
        /\ r_state.monolithic_is_complete => r_next = {END}
        /\ (~r_state.monolithic_is_complete /\ LastIsToolRequest) => r_next = {"tools"}
        /\ (~r_state.monolithic_is_complete /\ ~LastIsToolRequest) => r_next = {"contextor"}

\* The task is declared complete although the last message still requests a
\* tool: the run terminates.
C15_Witness ==
    /\ r_mode = "mono"
    /\ r_node = "monolithic"
    /\ r_state.monolithic_is_complete
    /\ LastIsToolRequest
    /\ r_next = {END}

\* C16: post_executor_gate routes to the tool dispatch exactly when the last
\* executor message is an AI message with at least one tool call, and to the
\* summarizer otherwise; after the tool dispatch the summarizer is next.
C16_PostExecutorRouting ==
    /\ Routed("executor") =>
          /\ (r_next = {"executor_tools"}) = LastIsToolRequest
          /\ ~LastIsToolRequest => r_next = {"summarizer"}
    /\ Routed("executor_tools") => r_next = {"summarizer"}

\* The last message is an AI message without tool calls: the dispatch is skipped.
C16_Witness ==
    /\ Routed("executor")
    /\ r_state.executor_messages = <<AIText("thinking")>>
    /\ r_next = {"summarizer"}

\* ============================================================ claims: graph run
\* C14: in the multi-agent graph the convergence node runs alone and only when
\* every node scheduled since the post-cortex fan-out has finished: with both
\* branches selected, after the orchestrator and after the executor branch
\* (executor, executor_tools when scheduled, summarizer); and it runs once.
C14_ConvergenceBarrier ==
    /\ "convergence" \in active =>
          /\ active = {"convergence"}
          /\ (epoch.scheduled \ {"convergence"}) \subseteq epoch.done
          /\ "orchestrator" \in epoch.branch => "orchestrator" \in epoch.done
          /\ "executor" \in epoch.branch => {"executor", "summarizer"} \subseteq epoch.done
    /\ epoch.conv_runs <= 1

\* Both branches were selected, the executor branch went through the tool
\* dispatch and the summarizer, and the convergence node has then run.
C14_Witness ==
    /\ epoch.branch = {"orchestrator", "executor"}
    /\ {"orchestrator", "executor", "executor_tools", "summarizer"} \subseteq epoch.done
    /\ "convergence" \in DOMAIN writes
    /\ epoch.conv_runs = 1

ConvergedNoOpen ==
    /\ gstatus = "running"
    /\ "convergence" \in DOMAIN writes
    /\ \A i \in 1..Len(g_state.subgoal_plan) :
          g_state.subgoal_plan[i] \notin {"PENDING", "RUNNING"}

PlanHasFailure ==
    \E i \in 1..Len(g_state.subgoal_plan) : g_state.subgoal_plan[i] = "FAILURE"

Unrun == Cardinality(active \ DOMAIN writes)

C21_ModelFailureBecomesRouting ==
    ~(gstatus = "NodeException" /\ g_exc.node = "monolithic")

\* C22: a reasoning node (monolithic, or cortex in the full graph) only ever
\* runs in the step right after a step made of the contextor alone, and in the
\* step after the monolithic node ran the four perception fields are null.
C22_FreshPerception ==
    /\ (gstatus = "running" /\ active \cap {"monolithic", "cortex"} # {}) =>
          prev_step = {"contextor"}
    /\ "monolithic" \in prev_step =>
          /\ g_state.latest_ui_hierarchy = PyNone
          /\ g_state.latest_screenshot = PyNone
          /\ g_state.focused_app_info = PyNone
          /\ g_state.device_date = PyNone

\* The monolithic node has run a second time, after a tool batch and a new
\* contextor step.
C22_Witness ==
    /\ g_mode = "mono"
    /\ prev_step = {"monolithic"}
    /\ supersteps >= 5
    /\ \E i \in 1..Len(g_state.executor_messages) :
          g_state.executor_messages[i].type = "ToolMessage"

\* C23: a failure of the screen data or of the device date never raises out
\* of the monolithic contextor node.
C23_PerceptionFailureContained ==
    ~(gstatus = "NodeException" /\ g_exc.node = "contextor")

\* C30: in the monolithic graph every update of the monolithic node carries
\* the completion flag, a true flag comes with a message without tool calls, a
\* true flag never stays in the State of a running graph, and a run that ended
\* normally ended on an AI message without tool calls.
C30_CompleteExcludesToolCalls ==
    g_mode = "mono" =>
        /\ "monolithic" \in DOMAIN writes =>
              /\ "monolithic_is_complete" \in DOMAIN writes["monolithic"]
              /\ writes["monolithic"].monolithic_is_complete =>
                    writes["monolithic"].executor_messages[1].tool_calls = <<>>
        /\ gstatus = "running" => ~g_state.monolithic_is_complete
        /\ gstatus = "END" =>
              /\ g_state.monolithic_is_complete
              /\ g_state.executor_messages # <<>>
              /\ ~LastHasToolCalls(g_state.executor_messages)

\* A monolithic run that ended on the completion flag after a tool batch.
C30_Witness ==
    /\ g_mode = "mono"
    /\ gstatus = "END"
    /\ \E i \in 1..Len(g_state.executor_messages) :
          g_state.executor_messages[i].type = "ToolMessage"

RECURSIVE ThoughtsGiven(_)
ThoughtsGiven(n) ==
    IF n = 0 THEN <<>>
    ELSE LET u == m_updates[n]
         IN  ThoughtsGiven(n - 1) \o
               (IF "agents_thoughts" \notin DOMAIN u THEN <<>>
                ELSE IF u["agents_thoughts"].kind = "str" THEN <<StrOf(u["agents_thoughts"])>>
                ELSE u["agents_thoughts"].v)

\* C28: agents_thoughts is append-only: at every point of a step it is the
\* value the step started from followed by the thoughts of the updates merged
\* so far, in the order given; an update whose agents_thoughts is neither a
\* string nor a list is never merged, it fails the step with a TypeError and
\* the list stays as it was before that update.
C28_ThoughtsAppendOnly ==
    /\ m_pc # "idle" =>
          m_merged.agents_thoughts = m_state.agents_thoughts \o ThoughtsGiven(m_i - 1)
    /\ \A i \in Applied :
          "agents_thoughts" \in DOMAIN m_updates[i] =>
              m_updates[i]["agents_thoughts"].kind \in {"str", "list"}
    /\ (/\ m_pc \in {"failed", "committed"}
        /\ \E i \in 1..Len(m_updates) :
              /\ "agents_thoughts" \in DOMAIN m_updates[i]
              /\ m_updates[i]["agents_thoughts"].kind \notin {"str", "list"})
          => m_pc = "failed" /\ m_error \in {"TypeError", "InvalidUpdateError"}
    /\ m_error = "TypeError" =>
          /\ m_pc = "failed"
          /\ m_updates[m_i]["agents_thoughts"].kind \notin {"str", "list"}

\* A string and then a list of two thoughts were merged into a list that held
\* one thought.
C28_Witness ==
    /\ m_pc = "committed"
    /\ m_state.agents_thoughts = <<"t0">>
    /\ Len(m_updates) = 2
    /\ m_updates[1] = [agents_thoughts |-> PyStr("t1")]
    /\ m_updates[2] = [agents_thoughts |-> PyList(<<"t1", "t2">>)]
    /\ m_merged.agents_thoughts = <<"t0", "t1", "t1", "t2">>

\* ============================================================ claims: device helpers
\* focus_element_if_needed was called with a resource id and nothing else.
OnlyResourceId ==
    /\ f_pc # "idle"
    /\ Truthy(f_args.id)
    /\ f_args.coordinates = PyNone
    /\ f_args.text = PyNone

\* C25: called with only a resource id, focus_element_if_needed ends by
\* returning; it has tapped at most once, by id, and then read the hierarchy
\* twice, else once; it returns True exactly when the element was last seen
\* present and focused.
C25_FocusByResourceIdOnly ==
    (OnlyResourceId /\ f_pc \in {"returned", "raised"}) =>
        /\ f_pc = "returned"
        /\ Len(f_taps) <= 1
        /\ f_reads = 1 + Len(f_taps)
        /\ f_return = "True" <=> (f_elt.present /\ f_elt.focused)

\* The place of a locator in the order resource_id, coordinates, text.
LocatorRank(locator) ==
    CASE locator = "resource_id" -> 1
      [] locator = "coordinates" -> 2
      [] OTHER -> 3

Provided(locator) == p_pc # "idle" /\ Truthy(p_target[locator])

\* C26: the tap tool tries the locators in the order resource_id, coordinates,
\* text: a locator is tried only after every provided locator before it in
\* that order was tried and did not succeed, nothing is tried after a success,
\* and the result has status 'error' exactly when no tried locator succeeded.
C26_TapLocatorOrder ==
    /\ \A i \in 1..Len(p_attempts) :
          /\ \A l \in Locators :
                (Provided(l) /\ LocatorRank(l) < LocatorRank(p_attempts[i])) =>
                    \E j \in 1..(i - 1) : p_attempts[j] = l
          /\ \A j \in 1..(i - 1) : p_outcomes[p_attempts[j]] # "success"
    /\ p_pc = "returned" =>
          (p_status = "error" <=>
              \A i \in 1..Len(p_attempts) : p_outcomes[p_attempts[i]] # "success")

\* What the log of a call holds.
Launches == {i \in 1..Len(l_log) : l_log[i][1] = "launch"}
Reads == {i \in 1..Len(l_log) : l_log[i][1] \in {"check", "verify"}}

\* The foreground package read at entry i of the log is the locked package
\* (white space around either name aside).
InForeground(i) ==
    /\ i \in Reads
    /\ l_log[i][2] # PyNone
    /\ l_log[i][2].v[1].name = l_locked.v[1].name

\* C27: _handle_initial_app_launch ends by returning a status dictionary for
\* the locked package. Without a locked package it launches nothing and
\* reports success None; it never makes more than 3 launches and does nothing
\* after a read that finds the locked package in the foreground; it reports
\* success True exactly when its last read found it there (with no launch at
\* all when that was the first read), and otherwise success False with an
\* error message, which happens only when a launch raised or the third
\* attempt failed.
C27_InitialLaunchStatus ==
    /\ l_pc \in {"idle", "start", "launch", "verify", "returned"}
    /\ Cardinality(Launches) <= 3
    /\ \A i \in Reads : InForeground(i) => i = Len(l_log)
    /\ l_pc = "returned" =>
          /\ l_result.locked_app_package = l_locked
          /\ l_locked = PyNone =>
                /\ l_log = <<>>
                /\ l_result.locked_app_initial_launch_success = "None"
                /\ l_result.locked_app_initial_launch_error = "None"
          /\ l_locked # PyNone =>
                /\ l_result.locked_app_initial_launch_success \in {"True", "False"}
                /\ l_result.locked_app_initial_launch_success = "True" <=>
                      InForeground(Len(l_log))
                /\ l_result.locked_app_initial_launch_success = "True" =>
                      l_result.locked_app_initial_launch_error = "None"
                /\ InForeground(1) => Launches = {}
                /\ l_result.locked_app_initial_launch_success = "False" =>
                      /\ l_result.locked_app_initial_launch_error # "None"
                      /\ \/ l_log[Len(l_log)] = <<"launch", "raise">>
                         \/ Cardinality(Launches) = 3

\* Two launches were followed by another app in the foreground and the third
\* by the locked package, read with white space around it.
C27_Witness ==
    /\ l_pc = "returned"
    /\ l_result.locked_app_initial_launch_success = "True"
    /\ Cardinality(Launches) = 3
    /\ l_locked = Package("com.app", FALSE)
    /\ l_log[Len(l_log)] = <<"verify", Package("com.app", TRUE)>>

\* ============================================================ claims: observability
\* The entries of the buffer the last call found that were young enough to retry.
Fresh == {i \in 1..Len(b_last.before) : b_last.at - b_last.before[i].timestamp < MaxLogAge}

ResendsOf(i) ==
    {k \in 1..Len(b_last.resent) : b_last.resent[k].data = b_last.before[i].data}

\* C29: the failed-log buffer never holds more than its capacity; a call
\* whose send failed leaves the buffer it found followed by its own log, cut
\* from the front down to the capacity, and re-sends nothing; a call whose
\* send succeeded re-sent every fresh entry of the buffer exactly once, with
\* the entry's own step, and kept exactly the re-sent entries whose re-send
\* failed, in order.
C29_FailedLogsBuffered ==
    /\ Len(b_failed_logs) <= MaxFailedLogs
    /\ b_last.primary = "fail" =>
          LET all == Append(b_last.before,
                            [data |-> b_last.data, timestamp |-> b_last.at,
                             step |-> b_failed_logs[Len(b_failed_logs)].step])
              drop == Len(all) - Len(b_failed_logs)
          IN  /\ b_last.resent = <<>>
              /\ Len(b_failed_logs) = IF Len(all) > MaxFailedLogs THEN MaxFailedLogs ELSE Len(all)
              /\ b_failed_logs = SubSeq(all, drop + 1, Len(all))
    /\ b_last.primary = "ok" =>
          /\ \A i \in Fresh :
                /\ Cardinality(ResendsOf(i)) = 1
                /\ \A k \in ResendsOf(i) :
                      /\ b_last.resent[k].step = b_last.before[i].step
                      /\ b_last.resent[k].outcome = "fail" <=>
                            \E j \in 1..Len(b_failed_logs) : b_failed_logs[j] = b_last.before[i]
          /\ \A j \in 1..Len(b_failed_logs) :
                \E k \in 1..Len(b_last.resent) :
                    /\ b_last.resent[k].data = b_failed_logs[j].data
                    /\ b_last.resent[k].outcome = "fail"
          /\ \A j1, j2 \in 1..Len(b_failed_logs) :
                j1 < j2 => b_failed_logs[j1].data < b_failed_logs[j2].data
    /\ b_last.primary = "skipped" => b_failed_logs = b_last.before

\* A successful log found a full buffer, re-sent both entries, and removed
\* the one whose re-send succeeded.
C29_Witness ==
    /\ b_last.primary = "ok"
    /\ Len(b_last.before) = MaxFailedLogs
    /\ Len(b_last.resent) = MaxFailedLogs
    /\ Len(b_failed_logs) = MaxFailedLogs - 1
    /\ b_last.before[1].data > 1

====
